---- MODULE Spec2Model ----
(***************************************************************************)
(* Model of the data-collector ingestion pipeline of telegram-parser-system *)
(*   queue/message_queue.py    MessageQueue  (asyncio.Queue + Redis list)   *)
(*   queue/batch_processor.py  BatchProcessor (per-channel accumulator)     *)
(*   database/writer.py        DatabaseWriter.insert_messages               *)
(*   main.py                   lifespan (startup / shutdown sequence)       *)
(*   database/writer.py        get_worker_jobs, update_job_status           *)
(*   worker/job_executor.py    JobExecutor.execute (the worker's protocol)  *)
(*   database/writer.py        update_worker_heartbeat, get_worker_stats,   *)
(*                             cleanup_old_jobs                             *)
(*                                                                         *)
(* Every `await` of the source is a step boundary; the synchronous code    *)
(* between two awaits is executed inside one action.                       *)
(***************************************************************************)
EXTENDS Integers, Sequences, FiniteSets, TLC

\* ---------------------------------------------------------------- bounds
\* Settings.MAX_QUEUE_SIZE (default 10000), scaled down
max_size == 2
\* Settings.BATCH_SIZE (default 100), scaled down
batch_size == 2
\* number of add_batch calls of one run of the model
MaxEnvelopes == 3
\* number of process starts of one run of SpecQueue
MaxStarts == 2
\* number of direct insert_messages calls in SpecDb
MaxDbCalls == 2
\* number of jobs the external scheduler has put into table jobs
MaxJobs == 3
\* number of calls of routes by direct callers in SpecApi and SpecRegistry
MaxApiCalls == 3
\* the time the database clock passes through in SpecApi and SpecRegistry
MaxDays == 3

\* the literal 9999 of ltrim("message_queue_backup", 0, 9999) keeps 10000
\* entries; scaled with the queue, for a deployment whose MAX_QUEUE_SIZE is
\* configured below the hard-coded trim length
BackupTrimLen == max_size + 1

Channels == {1, 2}
\* the numbers of messages of the submitted batches
BatchLens == {1}
Producers == {"w1", "w2"}
\* the two tasks that run _flush_channel: the consumer task
\* (BatchProcessor.start) and the lifespan task (BatchProcessor.stop);
\* "direct" is a caller of insert_messages outside the pipeline
Flushers == {"cons", "stop", "direct"}

\* ------------------------------------------------------------ data model
NoDate == [kind |-> "none", t |-> 0]
DateTime(n) == [kind |-> "datetime", t |-> n]

\* a parsed message as produced by the worker (parser.py parse_message):
\* version v fills every field so that two versions of the same message_id
\* differ in every field
MkItem(id, v) ==
    [message_id |-> id, text |-> v, date |-> DateTime(v), views |-> v,
     forwards |-> v, replies |-> v, reactions |-> v,
     edit_date |-> IF v = 1 THEN NoDate ELSE DateTime(v),
     author_id |-> v, author_name |-> v]

Min(a, b) == IF a < b THEN a ELSE b

\* json.dumps(x, default=str): a datetime is not JSON serialisable and is
\* replaced by str(datetime); None, numbers and strings are kept
JsonValue(d) == IF d.kind = "datetime" THEN [d EXCEPT !.kind = "str"] ELSE d

JsonItem(m) == [m EXCEPT !.date = JsonValue(@), !.edit_date = JsonValue(@)]

JsonDumps(env) ==
    [json |-> [env EXCEPT !.messages =
                  [k \in 1..Len(env.messages) |-> JsonItem(env.messages[k])]]]

\* json.loads: the decoded value; strings stay strings
JsonLoads(s) == s.json

\* ------------------------------------------------------------- Redis list
\* index 1 is the head (left end) of the list
Lpush(list, x) == <<x>> \o list

Ltrim(list, n) == SubSeq(list, 1, Min(Len(list), n))

RedisDelete(list) == <<>>

VARIABLES
    life,           \* position of the lifespan task (main.py)
    queue,          \* MessageQueue.queue (asyncio.Queue contents)
    redis_list,     \* Redis list "message_queue_backup"
    prodPc,         \* position of each add_batch call
    prodEnv,        \* batch_data of each add_batch call
    nextId,         \* next batch_id (uuid4 is modelled as a fresh number)
    accepted,       \* batch_ids returned by add_batch
    consPc,         \* position of the BatchProcessor.start task
    batch_data,     \* local batch_data of BatchProcessor.start
    running,        \* BatchProcessor.running
    current_batch,  \* BatchProcessor.current_batch (dict channel -> list)
    elapsed,        \* now - last_flush >= batch_timeout
    flight,         \* the insert_messages call of each flusher
    todo,           \* remaining channels of each flusher's _flush_all
    bk_items,       \* local items of _backup_to_redis
    db_messages,    \* committed rows of table messages, keyed (channel, id)
    db_channels,    \* committed aggregate columns of table channels
    clock,          \* NOW() of the database
    delivered,      \* batch_ids returned by get_batch, in order
    written,        \* per channel, the items of the successful writes
    enqueued,       \* envelopes put into the queue by add_batch, in order
    starts,         \* number of process starts so far
    dbCalls,        \* number of direct insert_messages calls so far
    shutdown,       \* what stop() and the backup found when they started
    last,           \* outcome of the insert_messages call that just ended
    jobs,           \* rows of table jobs, by job_uuid
    chan_status,    \* column status of table channels
    workers,        \* rows of table workers, by worker_id
    wpc,            \* position of each worker in Worker.start / execute
    wjob,           \* JobExecutor.current_job of each worker
    started,        \* per worker, how its last start_job call went
    listed,         \* result of the last GET /jobs of a direct caller
    jlast,          \* the update_job_status statement that just ran
    wlast,          \* the last call of a route by a direct caller
    apiCalls,       \* number of calls of routes by direct callers so far
    col,            \* one JobExecutor inside execute / _collect_messages
    sub             \* the submit_messages call of that executor

apiVars == <<wlast, apiCalls>>
clientVars == <<col, sub>>
jobVars == <<jobs, chan_status, workers, wpc, wjob, started, listed, jlast,
             apiVars, clientVars>>

vars == <<life, queue, redis_list, prodPc, prodEnv, nextId, accepted, consPc,
          batch_data, running, current_batch, elapsed, flight, todo, bk_items,
          db_messages, db_channels, clock, delivered, written, enqueued,
          starts, dbCalls, shutdown, last, jobVars>>

queueVars == <<queue, redis_list, prodPc, prodEnv, nextId, accepted, enqueued>>
aggVars == <<consPc, batch_data, running, current_batch, elapsed, todo>>
dbVars == <<db_messages, db_channels, clock>>

NoEnv == [batch_id |-> 0, channel_id |-> 0, messages |-> <<>>]
NoFlight == [stage |-> "none", ch |-> 0, live |-> FALSE, snap |-> <<>>,
             records |-> <<>>, stat |-> NoDate]
NoLast == [op |-> "step", f |-> "none", ch |-> 0, kind |-> "none",
           stage |-> "none", pre |-> <<>>]
NoShutdown == [called |-> FALSE, idle |-> FALSE, drained |-> FALSE,
               resident |-> <<>>, delivered |-> <<>>]
EmptyBatch == [keys |-> <<>>, val |-> [c \in Channels |-> <<>>]]

\* ------------------------------------------------------- MessageQueue
\* _restore_from_redis: n times rpop (tail of the list), json.loads, put
RECURSIVE RestoreLoop(_, _, _)
RestoreLoop(list, q, n) ==
    IF n = 0 \/ list = <<>> THEN [list |-> list, q |-> q]
    ELSE RestoreLoop(SubSeq(list, 1, Len(list) - 1),
                     Append(q, JsonLoads(list[Len(list)])), n - 1)

\* mutant of RestoreFromRedis: every entry of the list is restored
RestoreFromRedis_All(list) == RestoreLoop(list, <<>>, Len(list))

RestoreFromRedis(list) ==
    IF Len(list) = 0 THEN [list |-> list, q |-> <<>>]
    ELSE RestoreLoop(list, <<>>, Min(Len(list), max_size))

\* lifespan startup of a new process: DatabaseWriter.connect,
\* MessageQueue() and connect() with the restore, BatchProcessor(),
\* create_task(batch_processor.start()) which sets running and enters the loop
Connect(maxStarts) ==
    /\ life = "down"
    /\ starts < maxStarts
    /\ starts' = starts + 1
    /\ LET r == RestoreFromRedis(redis_list) IN
         /\ queue' = r.q
         /\ redis_list' = r.list
    /\ life' = "serving"
    /\ prodPc' = [p \in Producers |-> "idle"]
    /\ prodEnv' = [p \in Producers |-> NoEnv]
    /\ consPc' = "get"
    /\ running' = TRUE
    /\ batch_data' = NoEnv
    /\ current_batch' = EmptyBatch
    /\ elapsed' = FALSE
    /\ flight' = [f \in Flushers |-> NoFlight]
    /\ todo' = [f \in Flushers |-> <<>>]
    /\ bk_items' = <<>>
    /\ shutdown' = [shutdown EXCEPT !.called = FALSE]
    /\ last' = [NoLast EXCEPT !.op = "connect", !.pre = redis_list]
    /\ UNCHANGED <<nextId, accepted, enqueued, dbVars, delivered, written, dbCalls>>
    /\ UNCHANGED jobVars

\* asyncio.Queue.put: appends when there is a free slot, otherwise the
\* caller is suspended until a slot is free (QueueFull is raised only by
\* put_nowait, which add_batch does not call)
QueuePut(p, env) ==
    IF Len(queue) < max_size
    THEN /\ queue' = Append(queue, env)
         /\ enqueued' = Append(enqueued, env)
         /\ prodPc' = [prodPc EXCEPT ![p] = "lpush"]
    ELSE /\ prodPc' = [prodPc EXCEPT ![p] = "put_wait"]
         /\ UNCHANGED <<queue, enqueued>>

\* add_batch up to its first await: builds batch_data and calls queue.put
AddBatch(p, ch, n) ==
    /\ life = "serving"
    /\ prodPc[p] = "idle"
    /\ nextId <= MaxEnvelopes
    /\ LET env == [batch_id |-> nextId, channel_id |-> ch,
                   messages |-> [k \in 1..n |->
                                  MkItem(10 * nextId + k, 1)]]
       IN /\ prodEnv' = [prodEnv EXCEPT ![p] = env]
          /\ QueuePut(p, env)
    /\ nextId' = nextId + 1
    /\ last' = NoLast
    /\ UNCHANGED <<shutdown, life, redis_list, accepted, aggVars, flight, bk_items, dbVars,
                   delivered, written, starts, dbCalls>>
    /\ UNCHANGED jobVars

\* a producer suspended in queue.put is resumed once a slot is free
AddBatchPutResume(p) ==
    /\ life \notin {"down"}
    /\ prodPc[p] = "put_wait"
    /\ Len(queue) < max_size
    /\ QueuePut(p, prodEnv[p])
    /\ last' = NoLast
    /\ UNCHANGED <<shutdown, life, redis_list, prodEnv, nextId, accepted, aggVars, flight,
                   bk_items, dbVars, delivered, written, starts, dbCalls>>
    /\ UNCHANGED jobVars

\* await self.redis.lpush(...); after redis.close() the command raises and
\* add_batch propagates the error instead of returning the batch_id
AddBatchLpush(p) ==
    /\ life \notin {"down"}
    /\ prodPc[p] = "lpush"
    /\ IF life = "db_close"
       THEN /\ prodPc' = [prodPc EXCEPT ![p] = "idle"]
            /\ UNCHANGED redis_list
       ELSE /\ redis_list' = Lpush(redis_list, JsonDumps(prodEnv[p]))
            /\ prodPc' = [prodPc EXCEPT ![p] = "ltrim"]
    /\ last' = NoLast
    /\ UNCHANGED <<shutdown, life, queue, prodEnv, nextId, accepted, enqueued, aggVars,
                   flight, bk_items, dbVars, delivered, written, starts, dbCalls>>
    /\ UNCHANGED jobVars

\* await self.redis.ltrim(...); return batch_id
AddBatchLtrim(p) ==
    /\ life \notin {"down"}
    /\ prodPc[p] = "ltrim"
    /\ prodPc' = [prodPc EXCEPT ![p] = "idle"]
    /\ IF life = "db_close"
       THEN UNCHANGED <<redis_list, accepted>>
       ELSE /\ redis_list' = Ltrim(redis_list, BackupTrimLen)
            /\ accepted' = accepted \cup {prodEnv[p].batch_id}
    /\ last' = NoLast
    /\ UNCHANGED <<shutdown, life, queue, prodEnv, nextId, enqueued, aggVars, flight,
                   bk_items, dbVars, delivered, written, starts, dbCalls>>
    /\ UNCHANGED jobVars

\* ------------------------------------------- POST /messages (routes.py)
\* the largest batch the route accepts (1000 in the source)
MaxBatchItems == 2

\* the validation inside the try block: the status of the HTTPException it
\* raises, or 200 when it raises none
ValidateBatch(n) ==
    IF n = 0 THEN 400
    ELSE IF n > MaxBatchItems THEN 400
    ELSE 200

\* except Exception as e: raise HTTPException(status_code=500, ...);
\* HTTPException is an Exception, so the one raised by the validation is
\* caught here as well
SubmitStatus(n) == IF ValidateBatch(n) # 200 THEN 500 ELSE 200

\* POST /messages with a batch of n messages that the validation refuses
\* (a batch it lets through goes on as AddBatch)
SubmitInvalid(p, n) ==
    /\ life = "serving"
    /\ prodPc[p] = "idle"
    /\ ValidateBatch(n) # 200
    /\ last' = [NoLast EXCEPT !.op = "submit_rejected",
                              !.kind = IF SubmitStatus(n) = 400
                                       THEN "400" ELSE "500"]
    /\ UNCHANGED <<shutdown, life, queueVars, aggVars, flight, bk_items,
                   dbVars, delivered, written, starts, dbCalls>>
    /\ UNCHANGED jobVars

\* ------------------------------------------------------ DatabaseWriter
\* one VALUES tuple of the INSERT: the row that a first insert stores
Row(ch, m) ==
    [channel_id |-> ch, message_id |-> m.message_id, text |-> m.text,
     date |-> m.date, views |-> m.views, forwards |-> m.forwards,
     replies |-> m.replies, reactions |-> m.reactions,
     edit_date |-> m.edit_date, author_id |-> m.author_id,
     author_name |-> m.author_name]

\* mutant of Upsert: a conflicting insert replaces the whole row
Upsert_ReplaceRow(table, ch, m) ==
    {r \in table : ~(r.channel_id = ch /\ r.message_id = m.message_id)}
        \cup {Row(ch, m)}

\* INSERT ... ON CONFLICT (channel_id, message_id) DO UPDATE SET views,
\* forwards, replies, reactions, edit_date = EXCLUDED.*
Upsert(table, ch, m) ==
    LET hit == {r \in table : r.channel_id = ch /\ r.message_id = m.message_id}
    IN IF hit = {}
       THEN table \cup {Row(ch, m)}
       ELSE (table \ hit) \cup
            {[r EXCEPT !.views = m.views, !.forwards = m.forwards,
                       !.replies = m.replies, !.reactions = m.reactions,
                       !.edit_date = m.edit_date] : r \in hit}

\* conn.executemany(query, records): the statement is run once per record,
\* in the order of the list
RECURSIVE ExecuteMany(_, _, _)
ExecuteMany(table, ch, records) ==
    IF records = <<>> THEN table
    ELSE ExecuteMany(Upsert(table, ch, Head(records)), ch, Tail(records))

\* mutant of MaxDate: the maximum is taken over the rows of every channel
MaxDate_AnyChannel(table, ch) ==
    LET ds == {r.date : r \in table}
    IN IF ds = {} THEN NoDate
       ELSE CHOOSE d \in ds : \A e \in ds : e.t <= d.t

\* SELECT MAX(date) FROM messages WHERE channel_id = $1
MaxDate(table, ch) ==
    LET ds == {r.date : r \in {x \in table : x.channel_id = ch}}
    IN IF ds = {} THEN NoDate
       ELSE CHOOSE d \in ds : \A e \in ds : e.t <= d.t

\* ------------------------------------------------------ BatchProcessor
\* the channels of a key list from the first one whose list is non-empty:
\* _flush_channel returns at once for an empty list
RECURSIVE Scan(_, _)
Scan(cb, chs) ==
    IF chs = <<>> THEN <<>>
    ELSE IF cb.val[Head(chs)] # <<>> THEN chs ELSE Scan(cb, Tail(chs))

\* _flush_channel up to the first await of insert_messages: messages is a
\* reference to the list object self.current_batch[channel_id]
NewFlight(c) ==
    [stage |-> "acquire", ch |-> c, live |-> TRUE, snap |-> <<>>,
     records |-> <<>>, stat |-> NoDate]

\* self.current_batch[channel_id].extend(messages)
Extend(cb, ch, msgs) ==
    [keys |-> IF \E i \in 1..Len(cb.keys) : cb.keys[i] = ch
              THEN cb.keys ELSE Append(cb.keys, ch),
     val |-> [cb.val EXCEPT ![ch] = @ \o msgs]]

\* mutant of ClearChannel: the whole accumulator is emptied
ClearChannel_All(cb, ch) == [cb EXCEPT !.val = [c \in Channels |-> <<>>]]

\* self.current_batch[channel_id] = []: the key is bound to a new list
ClearChannel(cb, ch) == [cb EXCEPT !.val[ch] = <<>>]

\* the list object that a flusher's messages refers to
Deref(f) ==
    IF flight[f].live THEN current_batch.val[flight[f].ch] ELSE flight[f].snap

\* rebinding the key of channel ch leaves the calls that still hold the old
\* list object with its contents
Detach(fl, f, ch) ==
    [g \in Flushers |->
        IF g # f /\ fl[g].stage = "acquire" /\ fl[g].ch = ch /\ fl[g].live
        THEN [fl[g] EXCEPT !.live = FALSE, !.snap = current_batch.val[ch]]
        ELSE fl[g]]

\* while self.running
LoopTest == IF running THEN "get" ELSE "done"

\* mutant of ConsCheckFlush: _check_flush without the time trigger
ConsCheckFlush_SizeOnly(cb, fl) ==
    /\ current_batch' = cb
    /\ flight' = [fl EXCEPT !["cons"] = NoFlight]
    /\ todo' = [todo EXCEPT !["cons"] = <<>>]
    /\ consPc' = LoopTest
    /\ elapsed' = elapsed
    /\ UNCHANGED <<life, bk_items, queue, shutdown>>

\* the consumer task from _check_flush on, with accumulator cb:
\* if elapsed >= batch_timeout and current_batch: _flush_all()
ConsCheckFlush(cb, fl) ==
    LET t == Scan(cb, cb.keys) IN
    /\ current_batch' = cb
    /\ IF elapsed /\ cb.keys # <<>> /\ t # <<>>
       THEN /\ flight' = [fl EXCEPT !["cons"] = NewFlight(Head(t))]
            /\ todo' = [todo EXCEPT !["cons"] = Tail(t)]
            /\ consPc' = "flush_all"
            /\ elapsed' = elapsed
       ELSE /\ flight' = [fl EXCEPT !["cons"] = NoFlight]
            /\ todo' = [todo EXCEPT !["cons"] = <<>>]
            /\ consPc' = LoopTest
            /\ elapsed' = IF elapsed /\ cb.keys # <<>> THEN FALSE ELSE elapsed
    /\ UNCHANGED <<life, bk_items, queue, shutdown>>

\* the consumer task inside _flush_all after one _flush_channel returned
ConsFlushAllNext(cb, fl) ==
    LET t == Scan(cb, todo["cons"]) IN
    /\ current_batch' = cb
    /\ IF t # <<>>
       THEN /\ flight' = [fl EXCEPT !["cons"] = NewFlight(Head(t))]
            /\ todo' = [todo EXCEPT !["cons"] = Tail(t)]
            /\ consPc' = "flush_all"
            /\ elapsed' = elapsed
       ELSE /\ flight' = [fl EXCEPT !["cons"] = NoFlight]
            /\ todo' = [todo EXCEPT !["cons"] = <<>>]
            /\ consPc' = LoopTest
            /\ elapsed' = FALSE
    /\ UNCHANGED <<life, bk_items, queue, shutdown>>

\* _backup_to_redis up to its first await: the queue is drained with
\* get_nowait into the local list items
BackupDrain(sh) ==
    /\ bk_items' = queue
    /\ queue' = <<>>
    /\ shutdown' = [sh EXCEPT !.drained = TRUE, !.resident = queue,
                              !.delivered = delivered]
    /\ life' = IF queue = <<>> THEN "redis_close" ELSE "bk_delete"

\* the lifespan task inside stop() -> _flush_all over the channels rest;
\* when the loop is over last_flush is set, stop() returns and
\* message_queue.disconnect() starts the backup
StopFlushAllNext(cb, fl, rest, sh) ==
    LET t == Scan(cb, rest) IN
    /\ current_batch' = cb
    /\ IF t # <<>>
       THEN /\ flight' = [fl EXCEPT !["stop"] = NewFlight(Head(t))]
            /\ todo' = [todo EXCEPT !["stop"] = Tail(t)]
            /\ life' = "stop_flush"
            /\ elapsed' = elapsed
            /\ shutdown' = sh
            /\ UNCHANGED <<bk_items, queue>>
       ELSE /\ flight' = [fl EXCEPT !["stop"] = NoFlight]
            /\ todo' = [todo EXCEPT !["stop"] = <<>>]
            /\ elapsed' = IF cb.keys # <<>> THEN FALSE ELSE elapsed
            /\ BackupDrain(sh)
    /\ UNCHANGED consPc

\* the caller of insert_messages outside the pipeline gets its result
DirectReturn(cb, fl) ==
    /\ current_batch' = cb
    /\ flight' = [fl EXCEPT !["direct"] = NoFlight]
    /\ UNCHANGED <<todo, consPc, elapsed, life, bk_items, queue, shutdown>>

\* what flusher f does when its insert_messages call has returned or raised
Continue(f, cb, fl) ==
    IF f = "cons"
    THEN IF consPc = "size_flush" THEN ConsCheckFlush(cb, fl)
         ELSE ConsFlushAllNext(cb, fl)
    ELSE IF f = "stop" THEN StopFlushAllNext(cb, fl, todo["stop"], shutdown)
    ELSE DirectReturn(cb, fl)

\* BatchProcessor.stop: running = False, then _flush_all
Stop ==
    /\ life = "serving"
    /\ running' = FALSE
    /\ StopFlushAllNext(current_batch, flight, current_batch.keys,
                        [shutdown EXCEPT !.called = TRUE,
                            !.idle = \A p \in Producers : prodPc[p] = "idle"])
    /\ last' = NoLast
    /\ UNCHANGED <<redis_list, prodPc, prodEnv, nextId, accepted, enqueued,
                   batch_data, dbVars, delivered, written, starts, dbCalls>>
    /\ UNCHANGED jobVars

\* mutant of QueueGet: the item is returned but stays in the queue
QueueGet_Peek(q) == [item |-> Head(q), rest |-> q]

\* asyncio.Queue.get as awaited by get_batch: the oldest item is removed
\* from the queue and returned
QueueGet(q) == [item |-> Head(q), rest |-> Tail(q)]

\* get_batch: queue.get() returns the head of the queue
GetBatch ==
    /\ life \notin {"down"}
    /\ consPc = "get"
    /\ queue # <<>>
    /\ batch_data' = QueueGet(queue).item
    /\ queue' = QueueGet(queue).rest
    /\ delivered' = Append(delivered, QueueGet(queue).item.batch_id)
    /\ consPc' = "got"
    /\ last' = NoLast
    /\ UNCHANGED <<shutdown, life, redis_list, prodPc, prodEnv, nextId, accepted, enqueued,
                   running, current_batch, elapsed, flight, todo, bk_items,
                   dbVars, written, starts, dbCalls>>
    /\ UNCHANGED jobVars

\* get_batch: the wait times out on an empty queue and returns None;
\* start goes on to _check_flush
GetBatchTimeout ==
    /\ life \notin {"down"}
    /\ consPc = "get"
    /\ queue = <<>>
    /\ ConsCheckFlush(current_batch, flight)
    /\ last' = NoLast
    /\ UNCHANGED <<redis_list, prodPc, prodEnv, nextId, accepted, enqueued,
                   batch_data, running, dbVars, delivered, written, starts,
                   dbCalls>>
    /\ UNCHANGED jobVars

\* _process_batch: extend the channel's list, flush it when it has reached
\* batch_size, then _check_flush
ProcessBatch ==
    /\ life \notin {"down"}
    /\ consPc = "got"
    /\ LET ch == batch_data.channel_id
           cb == Extend(current_batch, ch, batch_data.messages)
       IN IF Len(cb.val[ch]) >= batch_size
          THEN /\ current_batch' = cb
               /\ flight' = [flight EXCEPT !["cons"] = NewFlight(ch)]
               /\ consPc' = "size_flush"
               /\ UNCHANGED <<todo, elapsed, life, bk_items, queue, shutdown>>
          ELSE ConsCheckFlush(cb, flight)
    /\ batch_data' = NoEnv
    /\ last' = NoLast
    /\ UNCHANGED <<redis_list, prodPc, prodEnv, nextId, accepted, enqueued,
                   running, dbVars, delivered, written, starts, dbCalls>>
    /\ UNCHANGED jobVars

\* _process_batch raises before the messages are in the accumulator (the
\* lookup of a key or list.extend fails): except Exception in start logs
\* the error and sleeps one second; the loop goes on and batch_data is
\* bound anew by the next get_batch
ProcessBatchRaise ==
    /\ life \notin {"down"}
    /\ consPc = "got"
    /\ batch_data' = NoEnv
    /\ consPc' = LoopTest
    /\ last' = [NoLast EXCEPT !.op = "merge_raise",
                              !.ch = batch_data.channel_id]
    /\ UNCHANGED <<shutdown, life, queueVars, running, current_batch, elapsed,
                   flight, todo, bk_items, dbVars, delivered, written, starts,
                   dbCalls>>
    /\ UNCHANGED jobVars

\* time passes: batch_timeout has elapsed since last_flush
Tick ==
    /\ life \in {"serving", "stop_flush"}
    /\ ~elapsed
    /\ elapsed' = TRUE
    /\ last' = NoLast
    /\ UNCHANGED <<shutdown, life, queueVars, consPc, batch_data, running, current_batch,
                   flight, todo, bk_items, dbVars, delivered, written, starts,
                   dbCalls>>
    /\ UNCHANGED jobVars

Active(f) == life # "down" /\ flight[f].stage # "none"

\* insert_messages after pool.acquire() and transaction start: the records
\* are built from the list and executemany runs inside the transaction
InsertExec(f) ==
    /\ Active(f)
    /\ flight[f].stage = "acquire"
    /\ flight' = [flight EXCEPT ![f] =
                     [@ EXCEPT !.stage = "exec", !.records = Deref(f),
                               !.live = FALSE, !.snap = <<>>]]
    /\ last' = NoLast
    /\ UNCHANGED <<shutdown, life, queueVars, aggVars, bk_items, dbVars, delivered,
                   written, starts, dbCalls>>
    /\ UNCHANGED jobVars

\* UPDATE channels ... inside the transaction
InsertStats(f) ==
    /\ Active(f)
    /\ flight[f].stage = "exec"
    /\ flight' = [flight EXCEPT ![f] =
                     [@ EXCEPT !.stage = "stats",
                               !.stat = MaxDate(ExecuteMany(db_messages,
                                                    flight[f].ch,
                                                    flight[f].records),
                                                flight[f].ch)]]
    /\ last' = NoLast
    /\ UNCHANGED <<shutdown, life, queueVars, aggVars, bk_items, dbVars, delivered,
                   written, starts, dbCalls>>
    /\ UNCHANGED jobVars

\* the transaction commits and insert_messages returns len(records);
\* _flush_channel rebinds the channel to a new empty list
InsertCommit(f) ==
    /\ Active(f)
    /\ flight[f].stage = "stats"
    /\ LET ch == flight[f].ch IN
         /\ db_messages' = ExecuteMany(db_messages, ch, flight[f].records)
         /\ db_channels' = [db_channels EXCEPT ![ch] =
                               [last_parsed_at |-> clock + 1,
                                last_message_date |-> flight[f].stat]]
         /\ clock' = clock + 1
         /\ written' = [written EXCEPT ![ch] = @ \o flight[f].records]
         /\ IF f = "direct"
            THEN Continue(f, current_batch, flight)
            ELSE Continue(f, ClearChannel(current_batch, ch),
                          Detach(flight, f, ch))
    /\ last' = [NoLast EXCEPT !.op = "insert_ok", !.f = f, !.ch = flight[f].ch,
                              !.stage = flight[f].stage]
    /\ UNCHANGED <<redis_list, prodPc, prodEnv, nextId, accepted, enqueued,
                   batch_data, running, delivered, starts, dbCalls>>
    /\ UNCHANGED jobVars

\* mutant of FlushFailed: the failed flush drops the pending messages
FlushFailed_Drop(cb, ch) == ClearChannel(cb, ch)

\* except Exception in _flush_channel: the error is logged and the
\* messages are kept in the batch for retry
FlushFailed(cb, ch) == cb

\* mutant of Rollback: the statements executed before the failure stay
Rollback_KeepsUpserts(table, fl) ==
    IF fl.stage \in {"exec", "stats"}
    THEN ExecuteMany(table, fl.ch, fl.records) ELSE table

\* async with conn.transaction(): an exception leaving the block rolls the
\* transaction back, whatever statements had been executed in it
Rollback(table, fl) == table

\* the call raises (store unavailable, or data rejected by the store): the
\* transaction is rolled back; _flush_channel logs and keeps the list
InsertFail(f, kind) ==
    /\ Active(f)
    /\ db_messages' = Rollback(db_messages, flight[f])
    /\ Continue(f, FlushFailed(current_batch, flight[f].ch), flight)
    /\ last' = [NoLast EXCEPT !.op = "insert_fail", !.f = f,
                              !.ch = flight[f].ch, !.kind = kind,
                              !.stage = flight[f].stage]
    /\ UNCHANGED <<redis_list, prodPc, prodEnv, nextId, accepted, enqueued,
                   batch_data, running, db_channels, clock, delivered, written,
                   starts, dbCalls>>
    /\ UNCHANGED jobVars

\* DirectItems: the messages a direct caller passes to insert_messages
DirectItems == {MkItem(id, v) : id \in 1..2, v \in 1..2}

\* insert_messages called with a list of at most two messages;
\* an empty list returns 0 before anything is acquired
InsertMessages(ch, msgs) ==
    /\ life = "serving"
    /\ flight["direct"].stage = "none"
    /\ dbCalls < MaxDbCalls
    /\ dbCalls' = dbCalls + 1
    /\ flight' = [flight EXCEPT !["direct"] =
                     IF msgs = <<>> THEN NoFlight
                     ELSE [NewFlight(ch) EXCEPT !.live = FALSE, !.snap = msgs]]
    /\ last' = NoLast
    /\ UNCHANGED <<shutdown, life, queueVars, aggVars, bk_items, dbVars, delivered,
                   written, starts>>
    /\ UNCHANGED jobVars

\* ------------------------------------------------- MessageQueue.disconnect
\* await self.redis.delete("message_queue_backup")
BackupDelete ==
    /\ life = "bk_delete"
    /\ redis_list' = RedisDelete(redis_list)
    /\ life' = "bk_lpush"
    /\ last' = NoLast
    /\ UNCHANGED <<shutdown, queue, prodPc, prodEnv, nextId, accepted, enqueued, aggVars,
                   flight, bk_items, dbVars, delivered, written, starts, dbCalls>>
    /\ UNCHANGED jobVars

\* for item in items: await self.redis.lpush(...)
BackupLpush ==
    /\ life = "bk_lpush"
    /\ redis_list' = Lpush(redis_list, JsonDumps(Head(bk_items)))
    /\ bk_items' = Tail(bk_items)
    /\ life' = IF Tail(bk_items) = <<>> THEN "redis_close" ELSE "bk_lpush"
    /\ last' = NoLast
    /\ UNCHANGED <<shutdown, queue, prodPc, prodEnv, nextId, accepted, enqueued, aggVars,
                   flight, dbVars, delivered, written, starts, dbCalls>>
    /\ UNCHANGED jobVars

\* await self.redis.close()
RedisClose ==
    /\ life = "redis_close"
    /\ life' = "db_close"
    /\ last' = NoLast
    /\ UNCHANGED <<shutdown, queueVars, aggVars, flight, bk_items, dbVars, delivered,
                   written, starts, dbCalls>>
    /\ UNCHANGED jobVars

\* DatabaseWriter.disconnect: pool.close() waits until the connections in
\* use are released; the lifespan is over and the process exits
DbDisconnect ==
    /\ life = "db_close"
    /\ \A f \in Flushers : flight[f].stage = "none"
    /\ life' = "down"
    /\ last' = NoLast
    /\ UNCHANGED <<shutdown, queueVars, aggVars, flight, bk_items, dbVars, delivered,
                   written, starts, dbCalls>>
    /\ UNCHANGED jobVars

\* ------------------------------------------------- Job ledger (table jobs)
Jobs == 1..MaxJobs
JobStates == {"pending", "running", "completed", "failed"}
\* JobRequest.priority and jobs.created_at of the rows the scheduler wrote
Priorities == {1, 2}
CreatedAts == {1, 2}

\* a row of table jobs as the external scheduler inserts it
NewJob(ch, prio, created) ==
    [status |-> "pending", worker_id |-> "none", started_at |-> NoDate,
     completed_at |-> NoDate,
     retry_count |-> 0, messages_collected |-> 0, error_message |-> "none",
     priority |-> prio, created_at |-> created, channel_id |-> ch]

\* the place of a row that DELETE FROM jobs has removed: no statement with
\* WHERE job_uuid = $1 or WHERE j.status = ... finds it
NoJobRow == [NewJob(0, 0, 0) EXCEPT !.status = "absent"]

\* the partition of job j
JobChannel(j) == 1 + (j % 2)

\* the counters get_worker_stats answers when it finds no row
NoWorkerRow == [jobs_completed |-> 0, jobs_failed |-> 0,
                messages_processed |-> 0]

\* the place of a row that table workers does not hold
NoWorkerRecord ==
    [present |-> FALSE, status |-> "none", last_heartbeat |-> NoDate,
     metadata |-> "null", current_job |-> 0,
     jobs_completed |-> 0, jobs_failed |-> 0, messages_processed |-> 0]

\* INSERT INTO workers (worker_id, status, last_heartbeat, metadata)
\* VALUES ($1, $2, NOW(), $3): the counters take their column default 0
InsertWorker(status, now, meta) ==
    [NoWorkerRecord EXCEPT !.present = TRUE, !.status = status,
                           !.last_heartbeat = DateTime(now),
                           !.metadata = meta]
NoExec == [job_uuid |-> 0, messages_collected |-> 0]
NoStart == [job |-> 0, result |-> "none", rivals |-> {}]
NoListed == [limit |-> 0, rows |-> <<>>, choices |-> 0]
NoJLast == [op |-> "none", w |-> "none", job |-> 0,
            pre |-> NewJob(0, 0, 0)]
NoWLast == [op |-> "none", w |-> "none", status |-> "none", job |-> 0,
            answer |-> NoWorkerRow]

\* WHERE j.status = 'pending' AND c.status = 'active' (JOIN channels)
Eligible(J, cs) ==
    {j \in Jobs : J[j].status = "pending" /\ cs[J[j].channel_id] = "active"}

\* mutant of SortsBefore: ORDER BY j.priority ASC, j.created_at ASC
SortsBefore_PriorityAsc(J, a, b) ==
    \/ J[a].priority < J[b].priority
    \/ J[a].priority = J[b].priority /\ J[a].created_at < J[b].created_at

\* ORDER BY j.priority DESC, j.created_at ASC: row a has to come before b
SortsBefore(J, a, b) ==
    \/ J[a].priority > J[b].priority
    \/ J[a].priority = J[b].priority /\ J[a].created_at < J[b].created_at

\* get_worker_jobs: the row lists the SELECT may return for LIMIT limit.
\* Rows that are equal in priority and created_at have no order defined by
\* the ORDER BY, so the statement may return them in any order and, under
\* the LIMIT, any of them.
GetWorkerJobs(J, cs, limit) ==
    LET rowset == Eligible(J, cs)
        n == Min(limit, Cardinality(rowset))
    IN  {s \in [1..n -> rowset] :
            /\ \A i \in 1..n : \A k \in 1..n :
                  i < k => (s[i] # s[k] /\ ~SortsBefore(J, s[k], s[i]))
            /\ \A j \in rowset \ {s[i] : i \in 1..n} :
                  \A i \in 1..n : ~SortsBefore(J, j, s[i])}

\* update_job_status(job_id, 'running', worker_id): UPDATE jobs SET status,
\* worker_id, started_at = NOW() WHERE job_uuid = $1 (no condition on the
\* current status or worker_id)
UpdateRunning(row, w, now) ==
    IF row.status = "absent" THEN row
    ELSE [row EXCEPT !.status = "running", !.worker_id = w,
                     !.started_at = DateTime(now)]

\* update_job_status(job_id, 'completed', ...): first statement, with
\* completed_at = NOW()
UpdateCompleted(row, n, now) ==
    IF row.status = "absent" THEN row
    ELSE [row EXCEPT !.status = "completed", !.messages_collected = n,
                     !.completed_at = DateTime(now)]

\* update_job_status(job_id, 'failed', ...): first statement, with
\* completed_at = NOW()
UpdateFailed(row, msg, now) ==
    IF row.status = "absent" THEN row
    ELSE [row EXCEPT !.status = "failed", !.error_message = msg,
                     !.retry_count = @ + 1,
                     !.completed_at = DateTime(now)]

\* UPDATE workers SET jobs_completed = jobs_completed + 1,
\* messages_processed = messages_processed + $2 WHERE worker_id = $1
WorkerCompleted(row, n) ==
    IF ~row.present THEN row
    ELSE [row EXCEPT !.jobs_completed = @ + 1, !.messages_processed = @ + n]

\* UPDATE workers SET jobs_failed = jobs_failed + 1 WHERE worker_id = $1
WorkerFailed(row) ==
    IF ~row.present THEN row ELSE [row EXCEPT !.jobs_failed = @ + 1]

\* the variables of the ingestion pipeline
pipeVars == <<life, queue, redis_list, prodPc, prodEnv, nextId, accepted,
              consPc, batch_data, running, current_batch, elapsed, flight,
              todo, bk_items, db_messages, db_channels, delivered, written,
              enqueued, starts, dbCalls, shutdown, last>>

\* ----------------------------------------------------- worker (Worker.start)
\* mutant of GetJobs: the poll reserves the job it returns for the caller
GetJobs_Claim(w) ==
    /\ wpc[w] = "poll"
    /\ \E rows \in GetWorkerJobs(jobs, chan_status, 1) :
          IF rows = <<>>
          THEN UNCHANGED <<wpc, wjob, started, jobs>>
          ELSE /\ wpc' = [wpc EXCEPT ![w] = "start"]
               /\ wjob' = [wjob EXCEPT ![w] =
                              [job_uuid |-> rows[1], messages_collected |-> 0]]
               /\ started' = [started EXCEPT ![w] =
                                 [NoStart EXCEPT !.job = rows[1]]]
               /\ jobs' = [jobs EXCEPT ![rows[1]] = UpdateRunning(@, w, clock)]
    /\ jlast' = NoJLast
    /\ UNCHANGED <<chan_status, workers, listed, clock, pipeVars, clientVars>>
    /\ UNCHANGED apiVars

\* jobs = await api_client.get_jobs(limit=1): an empty answer sends the
\* worker to sleep and poll again, otherwise execute(jobs[0]) begins
GetJobs(w) ==
    /\ wpc[w] = "poll"
    /\ \E rows \in GetWorkerJobs(jobs, chan_status, 1) :
          IF rows = <<>>
          THEN UNCHANGED <<wpc, wjob, started>>
          ELSE /\ wpc' = [wpc EXCEPT ![w] = "start"]
               /\ wjob' = [wjob EXCEPT ![w] =
                              [job_uuid |-> rows[1], messages_collected |-> 0]]
               /\ started' = [started EXCEPT ![w] =
                                 [NoStart EXCEPT !.job = rows[1]]]
    /\ jlast' = NoJLast
    /\ UNCHANGED <<jobs, chan_status, workers, listed, clock,
                   pipeVars, clientVars>>
    /\ UNCHANGED apiVars

\* POST /jobs/{job_id}/start reaches the collector: update_job_status runs
\* its UPDATE and the route answers success
StartJob(w) ==
    /\ wpc[w] = "start"
    /\ LET j == wjob[w].job_uuid IN
         /\ jobs' = [jobs EXCEPT ![j] = UpdateRunning(@, w, clock)]
         /\ started' = [started EXCEPT ![w] =
                [job |-> j, result |-> "ok",
                 rivals |-> IF jobs[j].status = "pending"
                            THEN {v \in Producers \ {w} :
                                    wpc[v] = "start" /\ wjob[v].job_uuid = j}
                            ELSE {}]]
         /\ jlast' = [op |-> "start", w |-> w, job |-> j, pre |-> jobs[j]]
    /\ wpc' = [wpc EXCEPT ![w] = "collect"]
    /\ UNCHANGED <<chan_status, workers, wjob, listed, clock, pipeVars, clientVars>>
    /\ UNCHANGED apiVars

\* the start call fails on the way (httpx.HTTPError): start_job logs and
\* returns False; execute does not look at the result and goes on
StartJobError(w) ==
    /\ wpc[w] = "start"
    /\ started' = [started EXCEPT ![w] = [@ EXCEPT !.result = "error"]]
    /\ wpc' = [wpc EXCEPT ![w] = "collect"]
    /\ jlast' = NoJLast
    /\ UNCHANGED <<jobs, chan_status, workers, wjob, listed, clock,
                   pipeVars, clientVars>>
    /\ UNCHANGED apiVars

\* the numbers of messages one job collects
CollectCounts == {1}

\* _execute_initial_parse / _execute_update_parse / _execute_full_sync
\* returned: the messages were collected and submitted
CollectDone(w, n) ==
    /\ wpc[w] = "collect"
    /\ wjob' = [wjob EXCEPT ![w] = [@ EXCEPT !.messages_collected = n]]
    /\ wpc' = [wpc EXCEPT ![w] = "complete"]
    /\ jlast' = NoJLast
    /\ UNCHANGED <<jobs, chan_status, workers, started, listed,
                   clock, pipeVars, clientVars>>
    /\ UNCHANGED apiVars

\* the collection raised: except Exception -> fail_job
CollectRaise(w) ==
    /\ wpc[w] = "collect"
    /\ wpc' = [wpc EXCEPT ![w] = "fail"]
    /\ jlast' = NoJLast
    /\ UNCHANGED <<jobs, chan_status, workers, wjob, started, listed,
                   clock, pipeVars, clientVars>>
    /\ UNCHANGED apiVars

\* POST /jobs/{job_id}/complete: the UPDATE of jobs has been executed
CompleteJobUpdate(w) ==
    /\ wpc[w] = "complete"
    /\ LET j == wjob[w].job_uuid
           n == wjob[w].messages_collected
       IN /\ jobs' = [jobs EXCEPT ![j] = UpdateCompleted(@, n, clock)]
          /\ jlast' = [op |-> "complete", w |-> w, job |-> j,
                       pre |-> jobs[j]]
    /\ wpc' = [wpc EXCEPT ![w] = "complete_stats"]
    /\ UNCHANGED <<chan_status, workers, wjob, started, listed, clock,
                   pipeVars, clientVars>>
    /\ UNCHANGED apiVars

\* end of execute: finally current_job = None, messages_collected = 0, and
\* the worker polls again
ExecuteReturn(w) ==
    /\ wpc' = [wpc EXCEPT ![w] = "poll"]
    /\ wjob' = [wjob EXCEPT ![w] = NoExec]
    /\ started' = [started EXCEPT ![w] = NoStart]

\* the UPDATE of workers has been executed and the route answers
CompleteJobStats(w) ==
    /\ wpc[w] = "complete_stats"
    /\ workers' = [workers EXCEPT ![w] =
                      WorkerCompleted(@, wjob[w].messages_collected)]
    /\ ExecuteReturn(w)
    /\ jlast' = NoJLast
    /\ UNCHANGED <<jobs, chan_status, listed, clock,
                   pipeVars, clientVars>>
    /\ UNCHANGED apiVars

\* mutant of StatsFail: complete_job lets the error of the call escape, so
\* that the except branch of execute reports the job failed as well
StatsFail_Raise(w) ==
    /\ wpc[w] \in {"complete_stats", "fail_stats"}
    /\ IF wpc[w] = "complete_stats"
       THEN /\ wpc' = [wpc EXCEPT ![w] = "fail"]
            /\ UNCHANGED <<wjob, started>>
       ELSE ExecuteReturn(w)
    /\ jlast' = NoJLast
    /\ UNCHANGED <<jobs, chan_status, workers, listed,
                   clock, pipeVars, clientVars>>
    /\ UNCHANGED apiVars

\* the second statement of update_job_status raises (connection lost,
\* timeout): no transaction spans the two statements, the first one stays
StatsFail(w) ==
    /\ wpc[w] \in {"complete_stats", "fail_stats"}
    /\ ExecuteReturn(w)
    /\ jlast' = NoJLast
    /\ UNCHANGED <<jobs, chan_status, workers, listed,
                   clock, pipeVars, clientVars>>
    /\ UNCHANGED apiVars

\* POST /jobs/{job_id}/fail: the UPDATE of jobs has been executed
FailJobUpdate(w) ==
    /\ wpc[w] = "fail"
    /\ LET j == wjob[w].job_uuid IN
         /\ jobs' = [jobs EXCEPT ![j] = UpdateFailed(@, "error", clock)]
         /\ jlast' = [op |-> "fail", w |-> w, job |-> j, pre |-> jobs[j]]
    /\ wpc' = [wpc EXCEPT ![w] = "fail_stats"]
    /\ UNCHANGED <<chan_status, workers, wjob, started, listed, clock,
                   pipeVars, clientVars>>
    /\ UNCHANGED apiVars

\* the UPDATE of workers has been executed and the route answers
FailJobStats(w) ==
    /\ wpc[w] = "fail_stats"
    /\ workers' = [workers EXCEPT ![w] = WorkerFailed(@)]
    /\ ExecuteReturn(w)
    /\ jlast' = NoJLast
    /\ UNCHANGED <<jobs, chan_status, listed, clock,
                   pipeVars, clientVars>>
    /\ UNCHANGED apiVars

\* GET /jobs?limit=N by a caller outside the worker loop
ListJobs(limit) ==
    /\ LET answers == GetWorkerJobs(jobs, chan_status, limit) IN
          \E rows \in answers :
              listed' = [limit |-> limit, rows |-> rows,
                         choices |-> Cardinality(answers)]
    /\ jlast' = NoJLast
    /\ UNCHANGED <<jobs, chan_status, workers, wpc, wjob, started,
                   clock, pipeVars, clientVars>>
    /\ UNCHANGED apiVars

\* ------------------------------------------- routes called by direct callers
\* cleanup_old_jobs(days=7), scaled down: the retention window in units of
\* the database clock
RetentionDays == 1

\* the jobs and the counts that direct callers name in their calls
ApiJobs == {1, 2}
\* HeartbeatSender reports 'busy' or 'idle' (two of the WorkerStatus values)
HeartbeatStatuses == {"idle", "busy"}
HeartbeatJobs == {0, 1}
HeartbeatMeta == {"m"}

\* time passes: NOW() of the database grows
Advance ==
    /\ clock < MaxDays
    /\ clock' = clock + 1
    /\ jlast' = NoJLast
    /\ wlast' = NoWLast
    /\ UNCHANGED <<jobs, chan_status, workers, wpc, wjob, started, listed,
                   apiCalls, pipeVars, clientVars>>

\* POST /jobs/{job_id}/start by caller w: update_job_status(job_id,
\* "running", worker_id) and the answer {"success": True}
StartJobCall(w, j) ==
    /\ apiCalls < MaxApiCalls
    /\ apiCalls' = apiCalls + 1
    /\ jobs' = [jobs EXCEPT ![j] = UpdateRunning(@, w, clock)]
    /\ jlast' = [op |-> "start", w |-> w, job |-> j, pre |-> jobs[j]]
    /\ wlast' = [NoWLast EXCEPT !.op = "start", !.w = w, !.job = j,
                                !.status = "success"]
    /\ UNCHANGED <<chan_status, workers, wpc, wjob, started, listed, clock,
                   pipeVars, clientVars>>

\* POST /jobs/{job_id}/complete by caller w: both statements of
\* update_job_status(job_id, "completed", worker_id, messages_count)
CompleteJobCall(w, j, n) ==
    /\ apiCalls < MaxApiCalls
    /\ apiCalls' = apiCalls + 1
    /\ jobs' = [jobs EXCEPT ![j] = UpdateCompleted(@, n, clock)]
    /\ workers' = [workers EXCEPT ![w] = WorkerCompleted(@, n)]
    /\ jlast' = [op |-> "complete", w |-> w, job |-> j, pre |-> jobs[j]]
    /\ wlast' = [NoWLast EXCEPT !.op = "complete", !.w = w, !.job = j,
                                !.status = "success"]
    /\ UNCHANGED <<chan_status, wpc, wjob, started, listed, clock, pipeVars, clientVars>>

\* POST /jobs/{job_id}/fail by caller w: both statements of
\* update_job_status(job_id, "failed", worker_id, error_message)
FailJobCall(w, j) ==
    /\ apiCalls < MaxApiCalls
    /\ apiCalls' = apiCalls + 1
    /\ jobs' = [jobs EXCEPT ![j] = UpdateFailed(@, "error", clock)]
    /\ workers' = [workers EXCEPT ![w] = WorkerFailed(@)]
    /\ jlast' = [op |-> "fail", w |-> w, job |-> j, pre |-> jobs[j]]
    /\ wlast' = [NoWLast EXCEPT !.op = "fail", !.w = w, !.job = j,
                                !.status = "success"]
    /\ UNCHANGED <<chan_status, wpc, wjob, started, listed, clock, pipeVars, clientVars>>

\* mutant of Expired: every terminal job is removed, whatever its age
Expired_AnyAge(row, now, days) == row.status \in {"completed", "failed"}

\* WHERE status IN ('completed', 'failed')
\* AND completed_at < NOW() - INTERVAL 'days days'; a comparison with a NULL
\* completed_at is not true
Expired(row, now, days) ==
    /\ row.status \in {"completed", "failed"}
    /\ row.completed_at.kind = "datetime"
    /\ row.completed_at.t < now - days

\* the hourly task of main.py: db_writer.cleanup_old_jobs(days=7) runs its
\* DELETE FROM jobs
CleanupOldJobs ==
    /\ jobs' = [j \in Jobs |->
                  IF Expired(jobs[j], clock, RetentionDays)
                  THEN NoJobRow ELSE jobs[j]]
    /\ jlast' = [NoJLast EXCEPT !.op = "cleanup"]
    /\ wlast' = NoWLast
    /\ UNCHANGED <<chan_status, workers, wpc, wjob, started, listed, clock,
                   apiCalls, pipeVars, clientVars>>

\* mutant of UpsertWorker: the conflicting insert replaces the row
UpsertWorker_Replace(row, status, now, meta) == InsertWorker(status, now, meta)

\* INSERT INTO workers ... ON CONFLICT (worker_id) DO UPDATE SET status =
\* EXCLUDED.status, last_heartbeat = NOW(), metadata = EXCLUDED.metadata:
\* the new metadata document has no key current_job
UpsertWorker(row, status, now, meta) ==
    IF row.present
    THEN [row EXCEPT !.status = status, !.last_heartbeat = DateTime(now),
                     !.metadata = meta, !.current_job = 0]
    ELSE InsertWorker(status, now, meta)

\* if current_job: UPDATE workers SET metadata = jsonb_set(COALESCE(metadata,
\* '{}'), '{current_job}', ...) WHERE worker_id = $1
SetCurrentJob(row, cj) ==
    IF cj # 0 /\ row.present
    THEN [row EXCEPT !.current_job = cj,
                     !.metadata = IF @ = "null" THEN "{}" ELSE @]
    ELSE row

\* POST /heartbeat by caller w: update_worker_heartbeat(worker_id, status,
\* current_job, metadata) and the answer "Heartbeat received"
Heartbeat(w, status, cj, meta) ==
    /\ apiCalls < MaxApiCalls
    /\ apiCalls' = apiCalls + 1
    /\ workers' = [workers EXCEPT ![w] =
                      SetCurrentJob(UpsertWorker(@, status, clock, meta), cj)]
    /\ wlast' = [NoWLast EXCEPT !.op = "heartbeat", !.w = w, !.job = cj,
                                !.status = status]
    /\ jlast' = NoJLast
    /\ UNCHANGED <<jobs, chan_status, wpc, wjob, started, listed, clock,
                   pipeVars, clientVars>>

\* mutant of WorkerStats: the counters of a missing row are read from a
\* row created on the spot
WorkerStats_Create(table, w) ==
    IF table[w].present THEN table
    ELSE [table EXCEPT ![w] = InsertWorker("idle", 0, "null")]

\* get_worker_stats reads table workers and writes nothing
WorkerStats(table, w) == table

\* SELECT jobs_completed, jobs_failed, messages_processed ... FROM workers
\* WHERE worker_id = $1: the row as a dict, or the zero counters when no
\* row is found (uptime_seconds is left out of the answer)
StatsAnswer(row) ==
    IF row.present
    THEN [jobs_completed |-> row.jobs_completed,
          jobs_failed |-> row.jobs_failed,
          messages_processed |-> row.messages_processed]
    ELSE NoWorkerRow

\* GET /stats by caller w: get_worker_stats(worker_id)
GetWorkerStats(w) ==
    /\ workers' = WorkerStats(workers, w)
    /\ wlast' = [NoWLast EXCEPT !.op = "stats", !.w = w,
                                !.status = "success",
                                !.answer = StatsAnswer(workers[w])]
    /\ jlast' = NoJLast
    /\ UNCHANGED <<jobs, chan_status, wpc, wjob, started, listed, clock,
                   apiCalls, pipeVars, clientVars>>

PipeInit ==
    /\ life = "down"
    /\ queue = <<>>
    /\ redis_list = <<>>
    /\ prodPc = [p \in Producers |-> "idle"]
    /\ prodEnv = [p \in Producers |-> NoEnv]
    /\ nextId = 1
    /\ accepted = {}
    /\ consPc = "done"
    /\ batch_data = NoEnv
    /\ running = FALSE
    /\ current_batch = EmptyBatch
    /\ elapsed = FALSE
    /\ flight = [f \in Flushers |-> NoFlight]
    /\ todo = [f \in Flushers |-> <<>>]
    /\ bk_items = <<>>
    /\ db_messages = {}
    /\ db_channels = [c \in Channels |->
                         [last_parsed_at |-> 0, last_message_date |-> NoDate]]
    /\ clock = 0
    /\ delivered = <<>>
    /\ written = [c \in Channels |-> <<>>]
    /\ enqueued = <<>>
    /\ starts = 0
    /\ dbCalls = 0
    /\ shutdown = NoShutdown
    /\ last = NoLast

\* ------------------------------- worker: submit_messages and _collect_messages
\* Config.MESSAGE_BATCH_SIZE (50 in the source)
MESSAGE_BATCH_SIZE == 2
\* default of parameter retry_count of submit_messages
retry_count == 3
\* the largest number of messages one get_messages stream yields
MaxStream == 4

\* sub.state: "none" no call yet, "post" inside the loop before a POST,
\* "true" / "false" the value the call returned, "raised" it raised
NoSubmit == [state |-> "none", attempt |-> 0, posts |-> 0, errors |-> 0]

\* col.pc: position in execute; batch is len(batch); submitted counts the
\* messages of the submit_messages calls that returned True; outcome and
\* messages_count are the terminal call execute made and its argument
NoCollect == [pc |-> "idle", seen |-> 0, batch |-> 0,
              messages_collected |-> 0, submitted |-> 0,
              outcome |-> "none", messages_count |-> 0]

\* everything but the executor and its submit call
serverVars == <<jobs, chan_status, workers, wpc, wjob, started, listed,
                jlast, apiVars, clock, pipeVars>>

\* submit_messages entered: for attempt in range(retry_count) starts at 0
NewSubmit == [NoSubmit EXCEPT !.state = "post"]

\* the POST was answered and raise_for_status passed: return True
SubmitSucceeded(s) == [s EXCEPT !.state = "true", !.posts = @ + 1]

\* mutant of SubmitFailed: the last attempt is followed by one more
SubmitFailed_OneMore(s) ==
    IF s.attempt < retry_count
    THEN [s EXCEPT !.attempt = @ + 1, !.posts = @ + 1, !.errors = @ + 1]
    ELSE [s EXCEPT !.state = "false", !.posts = @ + 1, !.errors = @ + 1]

\* except httpx.HTTPError: when attempt < retry_count - 1 sleep 2 ** attempt
\* and go to the next attempt, else return False
SubmitFailed(s) ==
    IF s.attempt < retry_count - 1
    THEN [s EXCEPT !.attempt = @ + 1, !.posts = @ + 1, !.errors = @ + 1]
    ELSE [s EXCEPT !.state = "false", !.posts = @ + 1, !.errors = @ + 1]

\* _collect_messages after submit_messages returned success: in the loop a
\* submitted batch is replaced by a new list and a failed one is kept ("will
\* retry"); after the loop the result of the final batch is only logged
AfterSubmit(c, success) ==
    IF c.pc = "submit"
    THEN IF success
         THEN [c EXCEPT !.pc = "loop", !.submitted = @ + c.batch, !.batch = 0]
         ELSE [c EXCEPT !.pc = "loop"]
    ELSE IF success
         THEN [c EXCEPT !.pc = "done", !.submitted = @ + c.batch]
         ELSE [c EXCEPT !.pc = "done"]

\* execute(job): current_job = job_id, messages_collected = 0, start_job,
\* and _collect_messages begins with an empty batch
Execute ==
    /\ col.pc = "idle"
    /\ col' = [NoCollect EXCEPT !.pc = "loop"]
    /\ sub' = NoSubmit
    /\ UNCHANGED serverVars

\* the stream yields a message and parse_message returns: batch.append,
\* messages_collected += 1, and submit_messages when len(batch) >= batch_size
NextMessage ==
    /\ col.pc = "loop"
    /\ col.seen < MaxStream
    /\ IF col.batch + 1 >= MESSAGE_BATCH_SIZE
       THEN /\ col' = [col EXCEPT !.seen = @ + 1, !.batch = @ + 1,
                                  !.messages_collected = @ + 1,
                                  !.pc = "submit"]
            /\ sub' = NewSubmit
       ELSE /\ col' = [col EXCEPT !.seen = @ + 1, !.batch = @ + 1,
                                  !.messages_collected = @ + 1]
            /\ UNCHANGED sub
    /\ UNCHANGED serverVars

\* the stream yields a message and parse_message raises: logged, continue
ParseError ==
    /\ col.pc = "loop"
    /\ col.seen < MaxStream
    /\ col' = [col EXCEPT !.seen = @ + 1]
    /\ UNCHANGED sub
    /\ UNCHANGED serverVars

\* the stream is exhausted: if batch: submit_messages for the remaining ones
StreamEnd ==
    /\ col.pc = "loop"
    /\ IF col.batch > 0
       THEN col' = [col EXCEPT !.pc = "final"] /\ sub' = NewSubmit
       ELSE col' = [col EXCEPT !.pc = "done"] /\ UNCHANGED sub
    /\ UNCHANGED serverVars

\* get_messages raises: _collect_messages logs and re-raises
StreamRaise ==
    /\ col.pc = "loop"
    /\ col' = [col EXCEPT !.pc = "raised"]
    /\ UNCHANGED sub
    /\ UNCHANGED serverVars

\* one POST /messages of submit_messages is answered with success
SubmitPostOk ==
    /\ sub.state = "post"
    /\ sub' = SubmitSucceeded(sub)
    /\ col' = AfterSubmit(col, TRUE)
    /\ UNCHANGED serverVars

\* one POST /messages of submit_messages ends in httpx.HTTPError
SubmitPostError ==
    /\ sub.state = "post"
    /\ sub' = SubmitFailed(sub)
    /\ col' = IF SubmitFailed(sub).state = "false"
              THEN AfterSubmit(col, FALSE) ELSE col
    /\ UNCHANGED serverVars

\* client.post raises something that is no httpx.HTTPError (the payload
\* holds the datetime objects of parse_message and json encoding rejects
\* them): submit_messages propagates it. Inside the loop the except of the
\* parse block logs it and continues with the batch kept; after the loop
\* _collect_messages re-raises
SubmitPostRaise ==
    /\ sub.state = "post"
    /\ sub' = [sub EXCEPT !.state = "raised"]
    /\ col' = [col EXCEPT !.pc = IF @ = "submit" THEN "loop" ELSE "raised"]
    /\ UNCHANGED serverVars

\* complete_job(job_id, self.messages_collected), then finally:
\* current_job = None, messages_collected = 0
CompleteJob ==
    /\ col.pc = "done"
    /\ col' = [col EXCEPT !.pc = "idle", !.outcome = "completed",
                          !.messages_count = col.messages_collected,
                          !.messages_collected = 0, !.batch = 0, !.seen = 0]
    /\ UNCHANGED sub
    /\ UNCHANGED serverVars

\* except Exception: fail_job(job_id, str(e)), then the same finally
FailJob ==
    /\ col.pc = "raised"
    /\ col' = [col EXCEPT !.pc = "idle", !.outcome = "failed",
                          !.messages_collected = 0, !.batch = 0, !.seen = 0]
    /\ UNCHANGED sub
    /\ UNCHANGED serverVars

\* the workers before their first poll, registered by a first heartbeat
WorkerInit ==
    /\ workers = [w \in Producers |-> InsertWorker("idle", 0, "null")]
    /\ wpc = [w \in Producers |-> "poll"]
    /\ wjob = [w \in Producers |-> NoExec]
    /\ started = [w \in Producers |-> NoStart]
    /\ listed = NoListed
    /\ jlast = NoJLast
    /\ wlast = NoWLast
    /\ apiCalls = 0
    /\ col = NoCollect
    /\ sub = NoSubmit

\* the service down, the Backup Store empty, the scheduler's jobs pending
\* with equal priority, channel 1 active and channel 2 paused
Init ==
    /\ PipeInit
    /\ WorkerInit
    /\ jobs = [j \in Jobs |-> NewJob(JobChannel(j), 1, j)]
    /\ chan_status = [c \in Channels |-> IF c = 1 THEN "active" ELSE "paused"]

\* the first start of the service, with an empty Backup Store
Boot == starts = 0 /\ Connect(MaxStarts)

PipeFlushers == {"cons", "stop"}
FailKinds == {"StorageUnavailable", "StorageRejected"}

ProducerSteps(P, C) ==
    \/ \E p \in P, ch \in C, n \in BatchLens : AddBatch(p, ch, n)
    \/ \E p \in P : AddBatchPutResume(p)
    \/ \E p \in P : AddBatchLpush(p)
    \/ \E p \in P : AddBatchLtrim(p)

ConsumerSteps ==
    \/ GetBatch
    \/ GetBatchTimeout
    \/ ProcessBatch

StorageSteps(F) ==
    \/ \E f \in F : InsertExec(f)
    \/ \E f \in F : InsertStats(f)
    \/ \E f \in F : InsertCommit(f)

StorageFailures(F) ==
    \E f \in F, k \in FailKinds : InsertFail(f, k)

ShutdownSteps ==
    \/ Stop
    \/ BackupDelete
    \/ BackupLpush
    \/ RedisClose
    \/ DbDisconnect

\* one lifetime of the whole service: one producer, the consumer task, the
\* storage and the lifespan
Next ==
    \/ Boot
    \/ ProducerSteps({"w1"}, Channels)
    \/ ConsumerSteps
    \/ Tick
    \/ StorageSteps(PipeFlushers)
    \/ StorageFailures(PipeFlushers)
    \/ ShutdownSteps

Spec == Init /\ [][Next]_vars

\* the queue and its backup store over several process lifetimes, with
\* concurrent producers and a storage that answers
NextQueue ==
    \/ Connect(MaxStarts)
    \/ ProducerSteps(Producers, {1})
    \/ ConsumerSteps
    \/ StorageSteps(PipeFlushers)
    \/ ShutdownSteps

SpecQueue == Init /\ [][NextQueue]_vars

\* the service with a storage that always answers
NextAvail ==
    \/ Boot
    \/ ProducerSteps({"w1"}, Channels)
    \/ ConsumerSteps
    \/ Tick
    \/ StorageSteps(PipeFlushers)
    \/ ShutdownSteps

SpecAvail == Init /\ [][NextAvail]_vars

\* one process lifetime without shutdown; the consumer task keeps being
\* scheduled by the event loop and every storage call ends (command_timeout)
NextDeliver ==
    \/ Boot
    \/ ProducerSteps({"w1"}, {1})
    \/ ConsumerSteps
    \/ Tick
    \/ StorageSteps({"cons"})
    \/ StorageFailures({"cons"})

SpecDeliver ==
    /\ Init
    /\ [][NextDeliver]_vars
    /\ WF_vars(ConsumerSteps)
    /\ WF_vars(StorageSteps({"cons"}))

\* one process lifetime with a storage that answers: the event loop keeps
\* scheduling the consumer task, storage calls end, and time passes
NextTimer ==
    \/ Boot
    \/ ProducerSteps({"w1"}, Channels)
    \/ ConsumerSteps
    \/ Tick
    \/ StorageSteps({"cons"})

SpecTimer ==
    /\ Init
    /\ [][NextTimer]_vars
    /\ WF_vars(ConsumerSteps)
    /\ WF_vars(StorageSteps({"cons"}))
    /\ WF_vars(Tick)

\* one process lifetime without shutdown in which the merge step of the
\* consumer may raise
NextMerge ==
    \/ Boot
    \/ ProducerSteps({"w1"}, {1})
    \/ ConsumerSteps
    \/ ProcessBatchRaise
    \/ Tick
    \/ StorageSteps({"cons"})
    \/ StorageFailures({"cons"})

SpecMerge == Init /\ [][NextMerge]_vars

\* one process lifetime without shutdown with a storage that may fail: the
\* event loop keeps scheduling the consumer task, every storage call ends,
\* and time passes
NextRetry ==
    \/ Boot
    \/ ProducerSteps({"w1"}, Channels)
    \/ ConsumerSteps
    \/ Tick
    \/ StorageSteps({"cons"})
    \/ StorageFailures({"cons"})

SpecRetry ==
    /\ Init
    /\ [][NextRetry]_vars
    /\ WF_vars(ConsumerSteps)
    /\ WF_vars(StorageSteps({"cons"}))
    /\ WF_vars(Tick)

\* the first start of the service and one restart
Restart == starts <= 1 /\ Connect(MaxStarts)

\* the queue and its backup store over two process lifetimes with concurrent
\* producers and the consumer, while the storage does not answer: a flush
\* that the consumer or stop() begins stays pending
NextBound ==
    \/ Restart
    \/ ProducerSteps(Producers, {1})
    \/ ConsumerSteps
    \/ ShutdownSteps

SpecBound == Init /\ [][NextBound]_vars

\* the submit route with valid and refused batches, the queue and the
\* consumer, in one process lifetime
NextSubmit ==
    \/ Boot
    \/ ProducerSteps(Producers, {1})
    \/ \E p \in Producers, n \in {0, MaxBatchItems + 1} : SubmitInvalid(p, n)
    \/ ConsumerSteps

SpecSubmit == Init /\ [][NextSubmit]_vars

\* sequences of at most two of the DirectItems
DirectLists ==
    {<<>>} \cup {<<a>> : a \in DirectItems}
           \cup {<<a, b>> : a \in DirectItems, b \in DirectItems}

\* DatabaseWriter.insert_messages called on its own
NextDb ==
    \/ Boot
    \/ \E ch \in Channels, msgs \in DirectLists : InsertMessages(ch, msgs)
    \/ StorageSteps({"direct"})
    \/ StorageFailures({"direct"})

SpecDb == Init /\ [][NextDb]_vars

\* HeartbeatSender.current_job: None from __init__; set_current_job is its
\* only writer and neither Worker nor JobExecutor calls it (JobExecutor
\* keeps a current_job of its own, wjob[w].job_uuid)
SenderCurrentJob(w) == 0

\* one round of HeartbeatSender.start: status is 'busy' if current_job is
\* set, else 'idle'; send_heartbeat posts it with current_job
SendHeartbeat(w) ==
    Heartbeat(w, IF SenderCurrentJob(w) # 0 THEN "busy" ELSE "idle",
              SenderCurrentJob(w), "m")

\* the job ledger and two workers running Worker.start against it
NextJobs ==
    \/ \E w \in Producers : GetJobs(w)
    \/ \E w \in Producers : StartJob(w)
    \/ \E w \in Producers : StartJobError(w)
    \/ \E w \in Producers, n \in CollectCounts : CollectDone(w, n)
    \/ \E w \in Producers : CollectRaise(w)
    \/ \E w \in Producers : CompleteJobUpdate(w)
    \/ \E w \in Producers : CompleteJobStats(w)
    \/ \E w \in Producers : FailJobUpdate(w)
    \/ \E w \in Producers : FailJobStats(w)
    \/ \E w \in Producers : StatsFail(w)

SpecJobs == Init /\ [][NextJobs]_vars

\* Worker.start: the heartbeat task beside the polling loop
NextWorker ==
    \/ NextJobs
    \/ \E w \in Producers : SendHeartbeat(w)

SpecWorker == Init /\ [][NextWorker]_vars

\* one JobExecutor running execute after execute, with a stream of at most
\* MaxStream messages and a collector that answers or fails each POST
NextCollect ==
    \/ Execute
    \/ NextMessage
    \/ ParseError
    \/ StreamEnd
    \/ StreamRaise
    \/ SubmitPostOk
    \/ SubmitPostError
    \/ SubmitPostRaise
    \/ CompleteJob
    \/ FailJob

SpecCollect == Init /\ [][NextCollect]_vars

\* a ledger as the scheduler and earlier claims may have left it: every job
\* has a priority and a creation time, is pending or running, and each
\* channel is active or paused
InitLedger ==
    /\ PipeInit
    /\ WorkerInit
    /\ \E pr \in [Jobs -> Priorities], cr \in [Jobs -> CreatedAts],
          st \in [Jobs -> {"pending", "running"}] :
          jobs = [j \in Jobs |->
                     IF st[j] = "pending"
                     THEN NewJob(JobChannel(j), pr[j], cr[j])
                     ELSE UpdateRunning(NewJob(JobChannel(j), pr[j], cr[j]),
                                        "w1", 0)]
    /\ chan_status \in [Channels -> {"active", "paused"}]

\* get_worker_jobs called with every limit on every such ledger
NextList == \E limit \in 0..MaxJobs : ListJobs(limit)

SpecList == InitLedger /\ [][NextList]_vars

\* the job ledger under direct calls of the job routes, the passing of time
\* and the retention sweep
NextApi ==
    \/ \E w \in Producers, j \in ApiJobs : StartJobCall(w, j)
    \/ \E w \in Producers, j \in ApiJobs, n \in CollectCounts :
          CompleteJobCall(w, j, n)
    \/ \E w \in Producers, j \in ApiJobs : FailJobCall(w, j)
    \/ CleanupOldJobs
    \/ Advance

SpecApi == Init /\ [][NextApi]_vars

\* table workers empty: no worker has sent a heartbeat yet
InitRegistry ==
    /\ PipeInit
    /\ workers = [w \in Producers |-> NoWorkerRecord]
    /\ wpc = [w \in Producers |-> "poll"]
    /\ wjob = [w \in Producers |-> NoExec]
    /\ started = [w \in Producers |-> NoStart]
    /\ listed = NoListed
    /\ jlast = NoJLast
    /\ wlast = NoWLast
    /\ apiCalls = 0
    /\ col = NoCollect
    /\ sub = NoSubmit
    /\ jobs = [j \in Jobs |-> NewJob(JobChannel(j), 1, j)]
    /\ chan_status = [c \in Channels |-> "active"]

\* table workers under heartbeats, job completions and failures, and reads
\* of the statistics
NextRegistry ==
    \/ \E w \in Producers, st \in HeartbeatStatuses, cj \in HeartbeatJobs,
          meta \in HeartbeatMeta : Heartbeat(w, st, cj, meta)
    \/ \E w \in Producers, n \in CollectCounts : CompleteJobCall(w, 1, n)
    \/ \E w \in Producers : FailJobCall(w, 1)
    \/ \E w \in Producers : GetWorkerStats(w)
    \/ Advance

SpecRegistry == InitRegistry /\ [][NextRegistry]_vars

\* ================================================================ claims
BatchIds(q) == [i \in 1..Len(q) |-> q[i].batch_id]
StoreIds == [i \in 1..Len(redis_list) |-> JsonLoads(redis_list[i]).batch_id]
Reverse(q) == [i \in 1..Len(q) |-> q[Len(q) + 1 - i]]
Range(q) == {q[i] : i \in 1..Len(q)}

\* C1: add_batch called while the queue holds max_size envelopes fails at
\* once with QueueFull: no producer is ever suspended inside the call.
C1_FullQueueRejects == \A p \in Producers : prodPc[p] # "put_wait"

\* C2: without a restart every envelope put into the queue is returned by
\* get_batch exactly once: it is in the queue or has been delivered, never
\* both and never twice, and an envelope in the queue is eventually
\* delivered to the consumer.
C2_NoLossNoDup ==
    /\ \A i \in 1..Len(delivered) : \A j \in 1..Len(delivered) :
          delivered[i] = delivered[j] => i = j
    /\ BatchIds(enqueued) = delivered \o BatchIds(queue)

C2_DeliveredExactlyOnce ==
    /\ [](life = "serving" => C2_NoLossNoDup)
    /\ \A id \in 1..MaxEnvelopes :
          (id \in Range(BatchIds(queue))) ~> (id \in Range(delivered))

\* C2 witness: three envelopes were enqueued and all of them delivered.
C2_Witness ==
    /\ Len(enqueued) = MaxEnvelopes
    /\ Len(delivered) = MaxEnvelopes
    /\ queue = <<>>

\* the queue that a restore of the backup list pre must produce: the
\* entries from the tail of the list on, at most max_size of them
OldestFirst(pre) ==
    [i \in 1..Min(Len(pre), max_size) |-> JsonLoads(pre[Len(pre) + 1 - i])]

\* a restart whose shutdown began with no add_batch call in progress and
\* before which the consumer had taken nothing from the queue
CleanRestart ==
    /\ last.op = "connect"
    /\ starts >= 2
    /\ shutdown.idle
    /\ delivered = <<>>

\* C3: restart round trip: N <= capacity envelopes enqueued, none taken by
\* the consumer, then disconnect and connect on a fresh queue: the new queue
\* holds exactly those N envelopes in their enqueue order.
C3_RestartRoundTrip == CleanRestart => queue = enqueued

\* C3, the part that holds: the restored queue has the batch_ids of the
\* enqueued envelopes in enqueue order, and each restored envelope is the
\* JSON image of the original.
C3_RestoredIdsInOrder ==
    CleanRestart =>
        queue = [i \in 1..Len(enqueued) |-> JsonLoads(JsonDumps(enqueued[i]))]

\* C4: after disconnect the Backup Store holds exactly the envelopes that
\* were resident in the queue at shutdown, and nothing else (checked for a
\* shutdown that began with no add_batch call in progress).
C4_StoreIsQueueAtShutdown ==
    (life = "down" /\ shutdown.idle)
        => StoreIds = Reverse(BatchIds(shutdown.resident))

\* C4, the part that holds: when the queue was not empty at the backup, the
\* store is replaced by the resident envelopes.
C4_NonEmptyQueueReplacesStore ==
    (life = "down" /\ shutdown.idle /\ shutdown.resident # <<>>)
        => StoreIds = Reverse(BatchIds(shutdown.resident))

\* C5: connect with K backed-up envelopes and capacity C fills the queue
\* oldest-first with min(K, C) envelopes, and the excess K - C envelopes are
\* neither in the queue nor left in the Backup Store.
C5_RestoreDropsExcess ==
    last.op = "connect" =>
        /\ queue = OldestFirst(last.pre)
        /\ redis_list = <<>>

\* C5, the part that holds: the queue is filled oldest-first and the excess
\* entries stay at the head of the Backup Store.
C5_RestoreLeavesExcess ==
    last.op = "connect" =>
        /\ queue = OldestFirst(last.pre)
        /\ redis_list = SubSeq(last.pre, 1, Len(last.pre) - Len(queue))

\* a restore that found more entries than the queue can hold
C5_ExcessCase == last.op = "connect" /\ Len(last.pre) > max_size

\* every message of envelope env is among the items of the successful
\* Storage Writer calls for its channel
Written(env) ==
    \A k \in 1..Len(env.messages) :
        \E j \in 1..Len(written[env.channel_id]) :
            written[env.channel_id][j].message_id = env.messages[k].message_id

\* C6: at-least-once across a graceful shutdown with storage available:
\* when stop(), MessageQueue.disconnect() and DatabaseWriter.disconnect()
\* have finished, every envelope whose add_batch returned an id has all its
\* items written, or is contained in the Backup Store.
C6_AcceptedSurvivesShutdown ==
    life = "down" =>
        \A i \in 1..Len(enqueued) :
            enqueued[i].batch_id \in accepted =>
                \/ Written(enqueued[i])
                \/ enqueued[i].batch_id \in Range(StoreIds)

\* C7: a flush of partition p hands the full pending sequence of p to the
\* Storage Writer (the records of a call made by the running service are the
\* pending sequence); a successful write empties the accumulator of p, a
\* failed write leaves every accumulator, p included, exactly as it was.
C7_HandsFullPending ==
    \A f \in PipeFlushers :
        (~shutdown.called /\ flight[f].stage \in {"exec", "stats"})
            => flight[f].records = current_batch.val[flight[f].ch]

C7_FlushOutcome ==
    /\ []C7_HandsFullPending
    /\ [][/\ (last'.op = "insert_ok" /\ last'.f \in PipeFlushers) =>
               /\ written'[last'.ch] =
                      written[last'.ch] \o flight[last'.f].records
               /\ current_batch' =
                      [current_batch EXCEPT !.val[last'.ch] = <<>>]
          /\ last'.op = "insert_fail" => current_batch' = current_batch
        ]_vars

\* C7 witness: after an earlier successful write, a write has just failed
\* and its partition still holds its pending items.
C7_Witness ==
    /\ last.op = "insert_fail"
    /\ current_batch.val[last.ch] # <<>>
    /\ \E c \in Channels : written[c] # <<>> /\ current_batch.val[c] = <<>>

\* C8: a write that fails with StorageRejected drops the offending items
\* from the partition accumulator; only StorageUnavailable leaves them.
C8_RejectedItemsDropped ==
    (last.op = "insert_fail" /\ last.kind = "StorageRejected")
        => current_batch.val[last.ch] = <<>>

\* positions of message id in the items written for channel ch
Occ(ch, id) == {i \in 1..Len(written[ch]) : written[ch][i].message_id = id}
MinOf(S) == CHOOSE x \in S : \A y \in S : x <= y
MaxOf(S) == CHOOSE x \in S : \A y \in S : x >= y

\* C9: after any sequence of insert_messages calls there is at most one row
\* per (channel_id, message_id); the row has text, date and author of the
\* first item written with that key and views, forwards, replies, reactions
\* and edit_date of the last one.
C9_IdempotentUpsert ==
    /\ \A r1 \in db_messages : \A r2 \in db_messages :
          (r1.channel_id = r2.channel_id /\ r1.message_id = r2.message_id)
              => r1 = r2
    /\ \A ch \in Channels : \A i \in 1..Len(written[ch]) :
          \E r \in db_messages :
              r.channel_id = ch /\ r.message_id = written[ch][i].message_id
    /\ \A r \in db_messages :
          LET o == Occ(r.channel_id, r.message_id) IN
          /\ o # {}
          /\ LET first == written[r.channel_id][MinOf(o)]
                 latest == written[r.channel_id][MaxOf(o)]
             IN /\ r.text = first.text
                /\ r.date = first.date
                /\ r.author_id = first.author_id
                /\ r.author_name = first.author_name
                /\ r.views = latest.views
                /\ r.forwards = latest.forwards
                /\ r.replies = latest.replies
                /\ r.reactions = latest.reactions
                /\ r.edit_date = latest.edit_date

\* C9 witness: a row written twice, keeping the text of the first write and
\* showing the views of the second.
C9_Witness ==
    \E r \in db_messages :
        /\ Cardinality(Occ(r.channel_id, r.message_id)) >= 2
        /\ r.text # r.views

\* C10: insert_messages is atomic: a call that fails changes no stored
\* state, and the stored state changes only by a commit that applies all
\* the upserts of the call together with the aggregate update.
C10_AtomicPerCall ==
    [][/\ last'.op = "insert_fail" =>
              (db_messages' = db_messages /\ db_channels' = db_channels)
       /\ (db_messages' # db_messages \/ db_channels' # db_channels) =>
              /\ last'.op = "insert_ok"
              /\ db_messages' = ExecuteMany(db_messages, last'.ch,
                                            flight[last'.f].records)
              /\ db_channels' =
                     [db_channels EXCEPT ![last'.ch] =
                         [last_parsed_at |-> clock',
                          last_message_date |->
                              MaxDate(db_messages', last'.ch)]]
      ]_vars

\* C10 witness: a call failed after its upserts and its aggregate update
\* had run inside the transaction, with rows of earlier calls stored.
C10_Witness ==
    /\ last.op = "insert_fail"
    /\ last.stage = "stats"
    /\ db_messages # {}

\* C11: two workers call start-job for the same pending job at the same
\* time: the call that reaches the ledger first succeeds, and the call of
\* the other worker, in flight at that moment, does not succeed.
C11_ExactlyOneClaimWins ==
    \A w \in Producers : \A v \in Producers :
        (/\ started[w].result = "ok"
         /\ v \in started[w].rivals
         /\ started[v].job = started[w].job)
            => started[v].result # "ok"

\* C12: a start-job by worker B on a job that is running and assigned to
\* another worker A leaves the row as it was (state, assigned worker and
\* started_at unchanged).
C12_ForeignClaimRejected ==
    (/\ jlast.op = "start"
     /\ jlast.pre.status = "running"
     /\ jlast.pre.worker_id # jlast.w)
        => jobs[jlast.job] = jlast.pre

\* the transitions of the job state machine
AllowedTransitions ==
    {<<"pending", "running">>, <<"running", "completed">>,
     <<"running", "failed">>}

\* C13: the state of a job changes only along pending -> running,
\* running -> completed and running -> failed.
C13_StateMachine ==
    [][\A j \in Jobs :
          jobs'[j].status # jobs[j].status
              => <<jobs[j].status, jobs'[j].status>> \in AllowedTransitions
      ]_vars

\* C13, one of the forbidden changes: a start-job that finds the job in a
\* terminal state leaves it there.
C13_TerminalStays ==
    (jlast.op = "start" /\ jlast.pre.status \in {"completed", "failed"})
        => jobs[jlast.job].status = jlast.pre.status

RECURSIVE SumOf(_, _)
SumOf(f, S) ==
    IF S = {} THEN 0
    ELSE LET x == CHOOSE y \in S : TRUE IN f[x] + SumOf(f, S \ {x})

\* C14: the job row and the worker counters change together: in every state
\* each completed job is counted in jobs_completed and its items in
\* messages_processed, and every increment of retry_count is matched by an
\* increment of jobs_failed.
C14_CountersWithJobState ==
    LET done == {j \in Jobs : jobs[j].status = "completed"} IN
    /\ Cardinality(done)
          <= SumOf([w \in Producers |-> workers[w].jobs_completed], Producers)
    /\ SumOf([j \in Jobs |-> jobs[j].messages_collected], done)
          <= SumOf([w \in Producers |-> workers[w].messages_processed],
                   Producers)
    /\ SumOf([j \in Jobs |-> jobs[j].retry_count], Jobs)
          = SumOf([w \in Producers |-> workers[w].jobs_failed], Producers)

\* no two eligible jobs agree in priority and creation time
NoTies ==
    \A a \in Eligible(jobs, chan_status) :
        \A b \in Eligible(jobs, chan_status) :
            (jobs[a].priority = jobs[b].priority
                /\ jobs[a].created_at = jobs[b].created_at) => a = b

\* the rows of a GET /jobs answer are at most limit jobs, all pending on an
\* active channel, by priority descending and creation time ascending, and
\* no eligible job left out has to come before a returned one
ListedInOrder ==
    LET rows == listed.rows IN
    /\ Len(rows) <= listed.limit
    /\ Len(rows) = Min(listed.limit,
                       Cardinality(Eligible(jobs, chan_status)))
    /\ \A i \in 1..Len(rows) :
          /\ jobs[rows[i]].status = "pending"
          /\ chan_status[jobs[rows[i]].channel_id] = "active"
    /\ \A i \in 1..Len(rows) : \A k \in 1..Len(rows) :
          i < k =>
              /\ rows[i] # rows[k]
              /\ jobs[rows[i]].priority >= jobs[rows[k]].priority
              /\ jobs[rows[i]].priority = jobs[rows[k]].priority
                    => jobs[rows[i]].created_at <= jobs[rows[k]].created_at
    /\ \A j \in Jobs : \A i \in 1..Len(rows) :
          (/\ jobs[j].status = "pending"
           /\ chan_status[jobs[j].channel_id] = "active"
           /\ \A k \in 1..Len(rows) : rows[k] # j)
              => /\ jobs[j].priority <= jobs[rows[i]].priority
                 /\ jobs[j].priority = jobs[rows[i]].priority
                       => jobs[j].created_at >= jobs[rows[i]].created_at

C16_SizeTrigger ==
    [][/\ (life # "down" /\ consPc = "got" /\ consPc' # "got") =>
            LET ch == batch_data.channel_id IN
            /\ current_batch'.val =
                   [current_batch.val EXCEPT ![ch] = @ \o batch_data.messages]
            /\ (Len(current_batch'.val[ch]) >= batch_size)
                   <=> (/\ consPc' = "size_flush"
                        /\ flight'["cons"].ch = ch
                        /\ flight'["cons"].stage = "acquire")
       /\ (/\ consPc = "size_flush"
           /\ last'.op \in {"insert_ok", "insert_fail"}
           /\ last'.f = "cons") =>
            \A c \in Channels \ {flight["cons"].ch} :
                /\ current_batch'.val[c] = current_batch.val[c]
                /\ written'[c] = written[c]
      ]_vars

\* C16 witness: a size-triggered flush of one partition is about to commit
\* batch_size items while the other partition has an item pending.
C16_Witness ==
    /\ consPc = "size_flush"
    /\ flight["cons"].stage = "stats"
    /\ Len(flight["cons"].records) >= batch_size
    /\ \E c \in Channels \ {flight["cons"].ch} :
          current_batch.val[c] # <<>> /\ written[c] = <<>>

\* message id is pending in partition c / was written for partition c
PendingIn(c, id) ==
    \E i \in 1..Len(current_batch.val[c]) :
        current_batch.val[c][i].message_id = id
WrittenIn(c, id) ==
    \E i \in 1..Len(written[c]) : written[c][i].message_id = id

\* C17: time trigger. A sweep that starts covers every non-empty partition,
\* the end of a sweep resets the last-flush clock, and with storage
\* available every pending item is eventually written, whether or not its
\* partition reaches batch_size or another envelope arrives.
C17_TimeTrigger ==
    /\ [][/\ (consPc # "flush_all" /\ consPc' = "flush_all") =>
               /\ elapsed
               /\ \A c \in Channels :
                     current_batch'.val[c] # <<>> =>
                         \/ c = flight'["cons"].ch
                         \/ \E i \in 1..Len(todo'["cons"]) :
                               todo'["cons"][i] = c
          /\ (consPc = "flush_all" /\ consPc' # "flush_all") => ~elapsed'
         ]_vars
    /\ \A c \in Channels : \A k \in 1..MaxEnvelopes :
          PendingIn(c, 10 * k + 1) ~> WrittenIn(c, 10 * k + 1)

\* C17 witness: a single item, below batch_size, has been written for its
\* partition while the queue was empty, and the clock was reset.
C17_Witness ==
    /\ last.op = "insert_ok"
    /\ Len(written[last.ch]) = 1
    /\ batch_size > 1
    /\ Len(enqueued) = 1
    /\ ~elapsed

\* the items of the envelopes of partition c, in enqueue order
RECURSIVE ItemsOf(_, _)
ItemsOf(envs, c) ==
    IF envs = <<>> THEN <<>>
    ELSE (IF Head(envs).channel_id = c THEN Head(envs).messages ELSE <<>>)
             \o ItemsOf(Tail(envs), c)

IsPrefix(s, t) == Len(s) <= Len(t) /\ SubSeq(t, 1, Len(s)) = s

\* C18: per-partition FIFO: for each partition the concatenation of the
\* item sequences of the successful Storage Writer calls is the
\* concatenation of the items of that partition's envelopes in enqueue
\* order, as far as they have been written.
C18_PartitionFifo ==
    \A c \in Channels : IsPrefix(written[c], ItemsOf(enqueued, c))

\* C19: the number of envelopes resident in the in-memory queue never
\* exceeds max_size.
C19_QueueBounded == Len(queue) <= max_size

\* C19 witness: in the second process lifetime the queue is full after the
\* restore, the Backup Store is not empty, and a producer is suspended in
\* put.
C19_Witness ==
    /\ Len(queue) = max_size
    /\ starts >= 2
    /\ Len(redis_list) > 0
    /\ \E p \in Producers : prodPc[p] = "put_wait"

\* no two workers are collecting and submitting items for the same job
C20_NoSharedExecution ==
    \A w \in Producers : \A v \in Producers :
        (w # v /\ wpc[w] = "collect" /\ wpc[v] = "collect")
            => wjob[w].job_uuid # wjob[v].job_uuid

\* C20: a job is worked on by one worker at a time: no two workers execute
\* the same job, and a worker executes a job only after its own start-job
\* call succeeded.
C20_OneWorkerPerJob ==
    /\ C20_NoSharedExecution
    /\ \A w \in Producers : wpc[w] = "collect" => started[w].result = "ok"

\* C21: a start-job for a running job by the worker that already holds it
\* is answered with success and changes nothing: the job row after the
\* repeated call equals the row after the first call.
C21_ReclaimIdempotent ==
    (/\ jlast.op = "start"
     /\ jlast.pre.status = "running"
     /\ jlast.pre.worker_id = jlast.w)
        => /\ wlast.status = "success"
           /\ jobs[jlast.job] = jlast.pre

\* C22: update_worker_heartbeat upserts the Worker Record: after the call
\* the record of the calling worker exists, with last_heartbeat at the
\* current time and the status the caller reported; its counters
\* jobs_completed, jobs_failed and messages_processed are what they were
\* (zero for a record the call created), and no other record changes.
C22_HeartbeatUpsert ==
    [][wlast'.op = "heartbeat" =>
          LET w == wlast'.w IN
          /\ workers'[w].present
          /\ workers'[w].status = wlast'.status
          /\ workers'[w].last_heartbeat = DateTime(clock')
          /\ StatsAnswer(workers'[w]) = StatsAnswer(workers[w])
          /\ \A v \in Producers \ {w} : workers'[v] = workers[v]
      ]_vars

\* C22 witness: a heartbeat at a later time changed the status of a known
\* worker whose counters are not zero.
C22_Witness ==
    /\ wlast.op = "heartbeat"
    /\ wlast.status = "busy"
    /\ workers[wlast.w].jobs_completed > 0
    /\ workers[wlast.w].last_heartbeat.t > 0

\* C23: get_worker_stats for a worker_id without a Worker Record answers
\* with all counters equal to zero and creates no record.
C23_UnknownWorkerZero ==
    [][(wlast'.op = "stats" /\ ~workers[wlast'.w].present) =>
          /\ wlast'.status = "success"
          /\ wlast'.answer.jobs_completed = 0
          /\ wlast'.answer.jobs_failed = 0
          /\ wlast'.answer.messages_processed = 0
          /\ workers' = workers
          /\ jobs' = jobs
      ]_vars

\* C23 witness: the statistics of a worker without a record were read
\* while the record of the other worker holds counters that are not zero.
C23_Witness ==
    /\ wlast.op = "stats"
    /\ ~workers[wlast.w].present
    /\ \E v \in Producers :
          workers[v].present /\ workers[v].jobs_completed > 0

\* C24: a job leaves the ledger only by the retention sweep, and the sweep
\* removes only jobs that are completed or failed and whose completion time
\* is older than the retention window; pending and running jobs stay.
C24_OnlyOldTerminalDeleted ==
    [][\A j \in Jobs :
          (jobs[j].status # "absent" /\ jobs'[j].status = "absent") =>
              /\ jlast'.op = "cleanup"
              /\ jobs[j].status \in {"completed", "failed"}
              /\ jobs[j].completed_at.kind = "datetime"
              /\ jobs[j].completed_at.t < clock - RetentionDays
      ]_vars

\* C24 witness: a sweep has removed one job and kept a completed or failed
\* job that is younger than the window, a running job and a pending job.
C24_Witness ==
    /\ jlast.op = "cleanup"
    /\ \E a \in Jobs, b \in Jobs :
          /\ jobs[a].status = "absent"
          /\ jobs[b].status \in {"completed", "failed"}
    /\ \E c \in Jobs : jobs[c].status = "pending"

\* C25: at most one flush is in flight for a partition at any time: the
\* insert_messages call of the consumer task and the one of stop() are never
\* both pending for the same partition.
C25_OneFlushPerPartition ==
    \A f \in PipeFlushers : \A g \in PipeFlushers :
        (f # g /\ Active(f) /\ Active(g)) => flight[f].ch # flight[g].ch

\* the envelopes that _process_batch has merged into the accumulator
MergedEnvelopes ==
    SelectSeq(enqueued,
              LAMBDA e : /\ e.batch_id \in Range(delivered)
                         /\ ~(consPc = "got"
                                 /\ batch_data.batch_id = e.batch_id))

\* message id is in the list or the records of an insert_messages call for
\* partition c that has not ended yet
InFlightIn(c, id) ==
    \E f \in PipeFlushers :
        /\ Active(f)
        /\ flight[f].ch = c
        /\ \/ \E i \in 1..Len(Deref(f)) : Deref(f)[i].message_id = id
           \/ \E i \in 1..Len(flight[f].records) :
                 flight[f].records[i].message_id = id

\* C26: an item that was merged into the accumulator of its partition is
\* still pending there, or is held by a Storage Writer call that has not
\* ended, or was part of a successful write, also when it was merged while
\* a Storage Writer call for that partition was suspended.
C26_MergedNotDiscarded ==
    \A c \in Channels :
        LET items == ItemsOf(MergedEnvelopes, c) IN
        \A i \in 1..Len(items) :
            \/ PendingIn(c, items[i].message_id)
            \/ InFlightIn(c, items[i].message_id)
            \/ WrittenIn(c, items[i].message_id)

\* C27: an envelope that get_batch has taken off the queue is not lost when
\* the merge step raises: it is still held by the consumer or back in the
\* queue, or its items are pending, in a Storage Writer call or written.
C27_DequeuedNotLost ==
    \A k \in 1..Len(enqueued) :
        LET e == enqueued[k] IN
        e.batch_id \in Range(delivered) =>
            \/ consPc = "got" /\ batch_data.batch_id = e.batch_id
            \/ e.batch_id \in Range(BatchIds(queue))
            \/ \A i \in 1..Len(e.messages) :
                  \/ PendingIn(e.channel_id, e.messages[i].message_id)
                  \/ InFlightIn(e.channel_id, e.messages[i].message_id)
                  \/ WrittenIn(e.channel_id, e.messages[i].message_id)

\* C28: once stop() has set running to False and begun the shutdown flush,
\* the consumer takes no envelope off the queue and merges no envelope into
\* the accumulator.
C28_NoDequeueAfterStop ==
    [][(shutdown.called /\ life # "down") =>
          /\ delivered' = delivered
          /\ ~(consPc = "got" /\ consPc' # "got")
      ]_vars

\* C29: liveness under transient storage failure: when the Storage Writer
\* calls fail only finitely many times, every item pending for a partition
\* is eventually written, whether or not another envelope arrives for that
\* partition.
C29_RetryUntilWritten ==
    \/ []<>(last.op = "insert_fail")
    \/ \A c \in Channels : \A k \in 1..MaxEnvelopes :
          PendingIn(c, 10 * k + 1) ~> WrittenIn(c, 10 * k + 1)

\* C29 witness: a time-triggered flush has failed with StorageUnavailable
\* and reset the last-flush clock, its item is still pending, the queue is
\* empty and no further envelope will arrive.
C29_Witness ==
    /\ last.op = "insert_fail"
    /\ last.kind = "StorageUnavailable"
    /\ current_batch.val[last.ch] # <<>>
    /\ Len(current_batch.val[last.ch]) < batch_size
    /\ consPc = "get"
    /\ ~elapsed
    /\ queue = <<>>
    /\ nextId > MaxEnvelopes

\* C30: a partition is flushed and cleared before it grows past the size
\* threshold: whenever the consumer is at the top of its loop, no partition
\* has more than batch_size items pending.
C30_AccumulatorBounded ==
    consPc \in {"get", "done"} =>
        \A c \in Channels : Len(current_batch.val[c]) <= batch_size

\* C31: the backup store is never written by add_batch's incremental backup
\* while _backup_to_redis is between its delete and its last lpush, and once
\* the process is down every envelope that add_batch accepted and the
\* consumer has not taken is in the store
C31_BackupWritesSerialized ==
    /\ [][\A p \in Producers :
            (prodPc[p] \in {"lpush", "ltrim"} /\ prodPc'[p] # prodPc[p]
               /\ life # "db_close")
            => life \notin {"bk_delete", "bk_lpush"}]_vars
    /\ [](life = "down" =>
            \A id \in accepted :
               id \in Range(delivered) \/ id \in Range(StoreIds))

\* C32: the counters of a worker change only in a step in which a running
\* job assigned to that worker becomes completed or failed, so that they
\* are counted once per job and for the assigned worker only: a repeated
\* complete or fail call, or a call by a worker that does not hold the job,
\* changes no counter.
C32_CountersOncePerJob ==
    [][\A w \in Producers :
          (\/ workers'[w].jobs_completed # workers[w].jobs_completed
           \/ workers'[w].jobs_failed # workers[w].jobs_failed
           \/ workers'[w].messages_processed # workers[w].messages_processed)
          => \E j \in Jobs :
                /\ jobs[j].status = "running"
                /\ jobs[j].worker_id = w
                /\ jobs'[j].status \in {"completed", "failed"}]_vars

\* C33: get_worker_jobs is a pure read: the poll of a worker changes no job
\* row, no worker row and no channel, so a job it returns is still pending
\* and is returned to every other worker that polls before one claims it.
C33_PollIsPureRead ==
    [][\A w \in Producers :
          (wpc[w] = "poll" /\ wpc'[w] = "start")
          => /\ jobs' = jobs
             /\ workers' = workers
             /\ chan_status' = chan_status
             /\ jobs'[wjob'[w].job_uuid].status = "pending"]_vars

\* C33 witness: two workers have polled and both hold the same job, which
\* is still pending because neither has claimed it
C33_Witness ==
    /\ wpc["w1"] = "start"
    /\ wpc["w2"] = "start"
    /\ wjob["w1"].job_uuid = wjob["w2"].job_uuid
    /\ jobs[wjob["w1"].job_uuid].status = "pending"

\* C34: when insert_messages has returned from a call with a non-empty
\* list, the aggregate record of the partition has last_parsed_at equal to
\* the time of the write and last_message_date equal to the largest date
\* of the rows stored for that partition, and of no other partition; a call
\* with an empty list returns at once and changes neither the rows, the
\* aggregate records nor the clock of the store.
C34_AggregateAfterInsert ==
    /\ [](last.op = "insert_ok" =>
            /\ db_channels[last.ch].last_parsed_at = clock
            /\ db_channels[last.ch].last_message_date # NoDate
            /\ \A r \in db_messages :
                  r.channel_id = last.ch =>
                      r.date.t <= db_channels[last.ch].last_message_date.t
            /\ \E r \in db_messages :
                  /\ r.channel_id = last.ch
                  /\ r.date = db_channels[last.ch].last_message_date)
    /\ [][(dbCalls' # dbCalls /\ flight'["direct"].stage = "none")
            => (/\ db_messages' = db_messages
                /\ db_channels' = db_channels
                /\ written' = written
                /\ clock' = clock)]_vars

\* C34 witness: a second call for a partition has returned; the row it
\* sent again kept its stored date, another partition holds a later date,
\* and the aggregate carries the time of this write
C34_Witness ==
    /\ last.op = "insert_ok"
    /\ Len(written[last.ch]) >= 2
    /\ \E r \in db_messages :
          /\ r.channel_id # last.ch
          /\ r.date.t > db_channels[last.ch].last_message_date.t
    /\ \E k \in 1..Len(written[last.ch]) :
          written[last.ch][k].date.t > db_channels[last.ch].last_message_date.t
    /\ db_channels[last.ch].last_parsed_at = clock

\* C34 witness of the empty call: insert_messages([]) has returned 0 after
\* an earlier call had stored rows
C34_WitnessEmpty ==
    /\ dbCalls = 2
    /\ flight["direct"].stage = "none"
    /\ last.op = "step"
    /\ db_messages # {}
    /\ Len(written[1]) + Len(written[2]) = Cardinality(db_messages)

\* C35: while the queue is connected, every envelope resident in the
\* in-memory queue is also in the backup store, whether add_batch put it
\* there or the restore did; an envelope whose add_batch has not yet
\* reached its lpush is not counted.
C35_ResidentIsBackedUp ==
    life = "serving" =>
        \A i \in 1..Len(queue) :
            \/ \E p \in Producers :
                  prodPc[p] = "lpush" /\ prodEnv[p].batch_id = queue[i].batch_id
            \/ queue[i].batch_id \in Range(StoreIds)

\* C36: a heartbeat sent while the worker executes a job reports busy with
\* current_job equal to that job, and a heartbeat reports idle with no job
\* only when the worker executes none.
C36_HeartbeatReflectsExecution ==
    [][(wlast'.op = "heartbeat" /\ apiCalls' # apiCalls) =>
          IF wjob[wlast'.w].job_uuid # 0
          THEN wlast'.status = "busy" /\ wlast'.job = wjob[wlast'.w].job_uuid
          ELSE wlast'.status = "idle" /\ wlast'.job = 0]_vars

\* C37: the messages_count a worker passes to complete_job equals the
\* number of messages of its submit_messages calls that returned True: a
\* job is reported completed only if every collected message was accepted,
\* the final partial batch included.
C37_ReportedEqualsSubmitted ==
    col.outcome = "completed" => col.messages_count = col.submitted

\* C40: submit_messages makes at most retry_count POST attempts and every
\* attempt before its return has failed; it returns True at the first
\* attempt that succeeds, returns False exactly when retry_count attempts
\* have failed, and makes no attempt after it has returned.
C40_SubmitTerminates ==
    /\ [](/\ sub.posts <= retry_count
          /\ sub.state = "post" =>
                /\ sub.attempt < retry_count
                /\ sub.posts = sub.attempt
                /\ sub.errors = sub.attempt
          /\ sub.state = "true" => sub.errors = sub.posts - 1
          /\ sub.state = "false" <=> sub.errors = retry_count)
    /\ [][sub.state \in {"true", "false", "raised"} =>
             (sub'.posts = sub.posts \/ sub'.posts = 0)]_vars

\* C40 witness: a call has returned True at its last attempt, after
\* retry_count - 1 failed ones
C40_Witness ==
    /\ sub.state = "true"
    /\ sub.posts = retry_count
    /\ sub.errors = retry_count - 1

\* C40 witness of the other return: retry_count failed attempts, False
C40_WitnessFalse ==
    /\ sub.state = "false"
    /\ sub.posts = retry_count

C39_InvalidRejectedWith400 ==
    [][last'.op = "submit_rejected" =>
          /\ last'.kind = "400"
          /\ queue' = queue
          /\ redis_list' = redis_list
          /\ enqueued' = enqueued]_vars

====
